---- MODULE Spec2Model ----
\* A model of the MIDI playback engines of williamcotton/midiplayer:
\*   - MainComponent            (src/Source/MainComponent.cpp, .h)
\*   - MidiSchedulerAudioSource (src/Source/MidiSchedulerAudioSource.cpp, .h)
\*
\* Time.  The code keeps positions as doubles in beats and event times as
\* ticks.  The model keeps every such quantity as an exact integer number
\* of "units", 1 tick = 60 * SampleRate units, so that
\*   one beat               = PPQ * 60 * SampleRate units,
\*   one block of n samples = n * tempo * PPQ units        (exactly),
\*   (int)(beats * secondsPerBeat * sampleRate) = trunc(units / (PPQ * tempo)).
\* All the code's conversions are therefore computed without rounding
\* other than the truncation of the code's own casts to int.
EXTENDS Integers, Sequences, FiniteSets, TLC

\* ------------------------------------------------------------------ bounds
\* Samples per second of the audio device (the model scales the device rate).
SampleRate == 10
\* Samples per audio block (bufferToFill.numSamples).
NumSamples == 4
\* Pending message-thread callbacks the model lets pile up.
MaxAsync == 1
\* setLoopRegion calls followed one memory access at a time.
MaxLoopCalls == 1
\* setTempo calls followed one memory access at a time.
MaxTempoCalls == 1
\* The tick the position stays below when the threads are followed one
\* memory access at a time.
MaxTick == 3840
\* The longest sequence and the longest tempo table of a single call.
FnMaxLen == 3
\* The most events in one block handed to SynthAudioSource::renderNextBlock.
SynMaxEvents == 2

\* ------------------------------------------------------- program constants
PPQ == 480

UnitsPerTick == 60 * SampleRate
BeatUnits == PPQ * UnitsPerTick

\* Tempi (BPM) the tempo slider / tempo table takes in the model.
TempoInputs == {60, 120}

\* The tempi passed to MidiSchedulerAudioSource::setTempo.
SchedTempoInputs == {120, 210}
\* The loop regions a user enters in the dialog, <<start tick, end tick, count>>:
\* beats [2,6) three times, beats [0,2) twice, a region shorter than a block,
\* a reversed region, and a region with no iterations.
LoopInputs == { <<960, 2880, 3>>, <<0, 960, 2>>, <<0, 240, 3>>,
                <<2880, 960, 1>>, <<0, 960, 0>> }

\* ---------------------------------------------------------------- helpers
Min(a, b) == IF a < b THEN a ELSE b

\* static_cast<int>(x) of a quotient a/b, b > 0: truncation toward zero.
TruncDiv(a, b) == IF a >= 0 THEN a \div b ELSE -((-a) \div b)

\* convertTicksToBeats / ticksToBeats: a tick count as a position.
convertTicksToBeats(ticks) == ticks * UnitsPerTick

\* (numSamples / sampleRate) / secondsPerBeat
BlockBeats(numSamples, tempo) == numSamples * tempo * PPQ

\* (int)(beats * secondsPerBeat * sampleRate)
BeatsToSamples(beats, tempo) == TruncDiv(beats, PPQ * tempo)

\* const double epsilon = 0.05 (beats)
Epsilon == BeatUnits \div 20

\* ------------------------------------------------------------- sequences
\* A MIDI event: tick, kind ("on", "off", "tempo", "prog"), channel, note
\* (or microseconds per quarter note for "tempo").
Ev(t, k, c, n) == [tick |-> t, kind |-> k, chan |-> c, note |-> n]

\* The sequences a file can load, each sorted by tick.
SeqEmpty == << >>
\* One note from beat 0 to beat 8.
SeqLong == << Ev(0, "on", 1, 60), Ev(3840, "off", 1, 60) >>
\* Notes around beat 2, one of them just after it, and an unterminated note.
SeqMix == << Ev(0, "on", 1, 60), Ev(970, "on", 1, 62), Ev(1440, "off", 1, 60),
             Ev(2400, "off", 1, 62), Ev(2890, "on", 2, 64) >>

MidiFiles == << SeqEmpty, SeqLong, SeqMix >>

\* A sequence with tempo meta-events: 120 BPM at tick 0, 60 BPM from beat 2.
SeqTempo == << Ev(0, "tempo", 0, 500000), Ev(0, "on", 1, 60), Ev(960, "tempo", 0, 1000000),
               Ev(1000, "off", 1, 60), Ev(1440, "on", 1, 62), Ev(1920, "off", 1, 62) >>

\* The sequences handed to MidiSchedulerAudioSource::setMidiSequence.
SchedFiles == << SeqEmpty, SeqMix, SeqTempo >>

\* The sequence is sorted by tick, as juce::MidiMessageSequence keeps it.
SortedByTick(seq) == \A i \in 1..(Len(seq) - 1) : seq[i].tick <= seq[i + 1].tick

\* juce::MidiMessageSequence::updateMatchedPairs: the note-off a note-on is
\* matched with (noteOffObject), as an index 0..n-1, or -1 for nullptr.
RECURSIVE MatchFrom(_, _, _)
MatchFrom(seq, i, j) ==
  IF j >= Len(seq) THEN -1
  ELSE IF seq[j + 1].note = seq[i + 1].note /\ seq[j + 1].chan = seq[i + 1].chan
          /\ seq[j + 1].kind = "off" THEN j
  ELSE MatchFrom(seq, i, j + 1)

noteOffObject(seq, i) == MatchFrom(seq, i, i + 1)

RECURSIVE MutBinSearchAfter(_, _, _, _)
MutBinSearchAfter(seq, beat, low, high) ==
  IF low < high
  THEN LET mid == (low + high) \div 2
       IN IF convertTicksToBeats(seq[mid + 1].tick) <= beat
          THEN MutBinSearchAfter(seq, beat, mid + 1, high)
          ELSE MutBinSearchAfter(seq, beat, low, mid)
  ELSE low

\* findEventIndexForBeat: binary search for the first event at or after beat.
RECURSIVE BinSearch(_, _, _, _)
BinSearch(seq, beat, low, high) ==
  IF low < high
  THEN LET mid == (low + high) \div 2
       IN IF convertTicksToBeats(seq[mid + 1].tick) < beat
          THEN BinSearch(seq, beat, mid + 1, high)
          ELSE BinSearch(seq, beat, low, mid)
  ELSE low

MutFindEventAfterBeat(seq, beat) == MutBinSearchAfter(seq, beat, 0, Len(seq))

findEventIndexForBeat(seq, beat) == BinSearch(seq, beat, 0, Len(seq))

\* fileEndBeat: one beat after the last event's beat (0 + 1 when empty).
FileEndBeat(seq) ==
  (IF Len(seq) > 0 THEN convertTicksToBeats(seq[Len(seq)].tick) ELSE 0) + BeatUnits

\* The voices a synthesiser has sounding after a buffer of events.
RECURSIVE ApplyEvents(_, _, _, _)
ApplyEvents(voices, seq, buf, k) ==
  IF k > Len(buf) THEN voices
  ELSE LET e == seq[buf[k].idx + 1]
           v == IF e.kind = "on" THEN voices \cup {<<e.chan, e.note>>}
                ELSE IF e.kind = "off" THEN voices \ {<<e.chan, e.note>>}
                ELSE voices
       IN ApplyEvents(v, seq, buf, k + 1)

\* =================================================================
\* MainComponent (src/Source/MainComponent.cpp)
\* =================================================================
VARIABLES
  mc,        \* the fields of MainComponent
  mcVoices,  \* the notes sf2Synth has sounding, as <<channel, note>>
  mcOut,     \* what the last operation handed to the synthesiser
  mcRun,     \* history of the current playback run
  mcAsync    \* callbacks posted with callAsync and not yet run

mainVars == <<mc, mcVoices, mcOut, mcRun, mcAsync>>

VARIABLES
  sched,      \* the fields of MidiSchedulerAudioSource
  schVoices,  \* the notes the synth has sounding, as <<channel, note>>
  schOut,     \* what the last operation did: the block it rendered
  schRun,     \* history of the current playback run (since startPlayback)
  schAsync    \* onPlaybackStopped callbacks posted and not yet run

schedVars == <<sched, schVoices, schOut, schRun, schAsync>>

VARIABLES
  audio,    \* where the audio thread is in getNextAudioBlock, and its locals
  control,  \* where the control thread is in setLoopRegion, and its arguments
  written   \* per loop field, how many setLoopRegion calls have written it

threadVars == <<audio, control, written>>

VARIABLE
  fn  \* one call of a function on inputs of its own: the call and its result

VARIABLES
  synth,     \* the fields of SynthAudioSource, and what its last block was given
             \* and did
  synVoices  \* the notes the channels' synths have sounding, each with the
             \* note number of the message that started it

synthVars == <<synth, synVoices>>

VARIABLES
  proc,           \* the fields of MidiProcessorThread, and the audio engine's notes
  procLock,       \* who holds MidiProcessorThread::lock
  procThread,     \* the thread: where it is in run and processNextBlock
  procControl,    \* the control thread: the operation it is in, and its result
  procCommitted   \* the fields as they were when the lock was last released

procVars == <<proc, procLock, procThread, procControl, procCommitted>>

VARIABLES
  player,    \* the fields of MidiPlayer, and the loop region its caller holds
  playerOut  \* what the last operation did: the calls it made, in order

playerVars == <<player, playerOut>>

VARIABLE
  mcAudio  \* the audio thread inside MainComponent::getNextAudioBlock: where
           \* it is, and the locals it has computed

moreVars == <<synthVars, procVars, playerVars, mcAudio>>

vars == <<mainVars, schedVars, threadVars, fn, moreVars>>

\* What an operation of one component leaves alone: the other components.
MainOnly == UNCHANGED <<schedVars, threadVars, fn, moreVars>>
SchedOnly == UNCHANGED <<mainVars, threadVars, fn, moreVars>>

\* What an operation handed to the synthesiser: the segments it processed
\* (processSegment), the notes it re-triggered, whether it called allNotesOff.
Out(op, segs, retrig, allOff) ==
  [op |-> op, segs |-> segs, retrig |-> retrig, allOff |-> allOff]

NoOut(op) == Out(op, << >>, << >>, FALSE)

\* reTriggerSustainedNotesAt: the test of one matched note-on.
MutSustainedNoTolerance(noteOnBeat, noteOffBeat, boundaryBeat) ==
  noteOnBeat <= boundaryBeat /\ noteOffBeat >= boundaryBeat

IsSustainedAt(noteOnBeat, noteOffBeat, boundaryBeat) ==
  noteOnBeat <= (boundaryBeat + Epsilon) /\ noteOffBeat > boundaryBeat

\* reTriggerSustainedNotesAt: the indices of the events it issues noteOn for,
\* in the order of the scan.
RECURSIVE ReTriggerScan(_, _, _)
ReTriggerScan(seq, boundaryBeat, i) ==
  IF i >= Len(seq) THEN << >>
  ELSE LET evt == seq[i + 1]
           off == noteOffObject(seq, i)
           hit == /\ evt.kind = "on"
                  /\ off # -1
                  /\ IsSustainedAt(convertTicksToBeats(evt.tick),
                                   convertTicksToBeats(seq[off + 1].tick),
                                   boundaryBeat)
       IN (IF hit THEN << i >> ELSE << >>) \o ReTriggerScan(seq, boundaryBeat, i + 1)

reTriggerSustainedNotesAt(seq, boundaryBeat) == ReTriggerScan(seq, boundaryBeat, 0)

\* The voices after the noteOn calls of reTriggerSustainedNotesAt.
NoteOnAll(voices, seq, idxs) ==
  voices \cup { <<seq[idxs[k] + 1].chan, seq[idxs[k] + 1].note>> : k \in 1..Len(idxs) }

\* processSegment: the loop over the events from eventIndex on; the result is
\* the MidiBuffer, each entry an event index and its sample position.
RECURSIVE SegmentScan(_, _, _, _, _, _, _)
SegmentScan(seq, eventIndex, segmentStartSample, segmentNumSamples, segmentStartBeat, segmentEndBeat, tempo) ==
  IF eventIndex >= Len(seq) THEN << >>
  ELSE LET eventBeat == convertTicksToBeats(seq[eventIndex + 1].tick)
       IN IF eventBeat >= segmentEndBeat THEN << >>
          ELSE LET eventSampleOffset == BeatsToSamples(eventBeat - segmentStartBeat, tempo)
                   add == /\ eventBeat >= segmentStartBeat
                          /\ eventSampleOffset >= 0
                          /\ eventSampleOffset < segmentNumSamples
               IN (IF add
                   THEN << [idx |-> eventIndex, pos |-> segmentStartSample + eventSampleOffset] >>
                   ELSE << >>)
                  \o SegmentScan(seq, eventIndex + 1, segmentStartSample, segmentNumSamples,
                                 segmentStartBeat, segmentEndBeat, tempo)

processSegment(seq, segmentStartSample, segmentNumSamples, segmentStartBeat, segmentEndBeat, tempo) ==
  [startSample |-> segmentStartSample,
   numSamples |-> segmentNumSamples,
   startBeat |-> segmentStartBeat,
   endBeat |-> segmentEndBeat,
   buf |-> SegmentScan(seq, findEventIndexForBeat(seq, segmentStartBeat),
                       segmentStartSample, segmentNumSamples,
                       segmentStartBeat, segmentEndBeat, tempo)]

\* playMidiFile: "if (loopCount > 0 && loopEndBeat > loopStartBeat)".
MutLoopDefinedReversed(c) == c.loopCount > 0 /\ c.loopEndBeat < c.loopStartBeat

LoopDefined(c) == c.loopCount > 0 /\ c.loopEndBeat > c.loopStartBeat

\* getNextAudioBlock: "if (currentLoopIteration < loopCount - 1)".
MutIterationsLeftOffByOne(c) == c.currentLoopIteration < c.loopCount

IterationsLeft(c) == c.currentLoopIteration < c.loopCount - 1

\* The history of a run, started afresh by playMidiFile.
\*   clean    no control command since a playMidiFile that armed a valid
\*            region longer than one audio block
\*   jumps    blocks that wrapped from loopEndBeat to loopStartBeat
\*   resets   blocks whose entry check moved the position to loopStartBeat
\*   exits    blocks that left the loop (final iteration)
\*   retrigs  the notes re-triggered at loop boundaries, in order
\*   exhausted  the loop region was left by its final iteration and has not
\*              been set or cleared since
\*   rearmed    the run was started by a playMidiFile that found the region
\*              exhausted
NewRun(clean, rearmed) ==
  [clean |-> clean, jumps |-> 0, resets |-> 0, exits |-> 0, retrigs |-> << >>,
   exhausted |-> FALSE, rearmed |-> rearmed]

Dirty(r) == [r EXCEPT !.clean = FALSE]

RetrigLog(at, boundaryBeat, idxs) ==
  [k \in 1..Len(idxs) |-> [at |-> at, boundary |-> boundaryBeat, idx |-> idxs[k]]]

\* The state after construction, with r and l the values of the fields the
\* constructor leaves uninitialised.
MainInitWith(r, l) ==
  /\ mc = [isPlaying |-> FALSE,
           playbackPosition |-> 0,
           currentLoopIteration |-> 0,
           tempo |-> 120,
           loopStartBeat |-> convertTicksToBeats(r[1]),
           loopEndBeat |-> convertTicksToBeats(r[2]),
           loopCount |-> r[3],
           isLooping |-> l,
           midiSequence |-> SeqEmpty,
           playButton |-> FALSE,
           stopButton |-> FALSE]
  /\ mcVoices = {}
  /\ mcOut = NoOut("init")
  /\ mcRun = NewRun(FALSE, FALSE)
  /\ mcAsync = 0

\* loopStartBeat, loopEndBeat, loopCount and isLooping have no initialiser
\* and the constructor does not set them: any value.
MainInit == \E r \in LoopInputs, l \in BOOLEAN : MainInitWith(r, l)

\* loadMidiFile: the file chooser's callback, for a file whose merged tracks
\* are MidiFiles[k].
MC_LoadMidiFile(k) ==
  /\ MainOnly
  /\ mc' = [mc EXCEPT !.midiSequence = MidiFiles[k],
                      !.playButton = TRUE,
                      !.stopButton = FALSE,
                      !.playbackPosition = 0]
  /\ mcOut' = NoOut("load")
  /\ mcRun' = Dirty(mcRun)
  /\ UNCHANGED <<mcVoices, mcAsync>>

\* playMidiFile, reached from the play button or the space key, both of
\* which need the play button enabled.
MC_PlayMidiFile ==
  /\ MainOnly
  /\ mc.playButton
  /\ mcAsync < MaxAsync
  /\ IF Len(mc.midiSequence) > 0
     THEN LET idxs == reTriggerSustainedNotesAt(mc.midiSequence, 0)
              armed == [mc EXCEPT !.isPlaying = TRUE,
                                  !.playbackPosition = 0,
                                  !.currentLoopIteration = 0,
                                  !.isLooping = IF LoopDefined(mc) THEN TRUE ELSE @,
                                  !.playButton = FALSE,
                                  !.stopButton = TRUE]
          IN /\ mc' = armed
             /\ mcVoices' = NoteOnAll({}, mc.midiSequence, idxs)
             /\ mcOut' = Out("play", << >>, RetrigLog("play", 0, idxs), TRUE)
             /\ mcRun' = NewRun(/\ armed.isLooping
                                /\ mc.loopCount > 0
                                /\ mc.loopEndBeat - mc.loopStartBeat
                                     > BlockBeats(NumSamples, mc.tempo),
                                mcRun.exhausted)
     ELSE /\ mcOut' = NoOut("play")
          /\ mcRun' = Dirty(mcRun)
          /\ UNCHANGED <<mc, mcVoices>>
  /\ UNCHANGED mcAsync

\* stopMidiFile (the body, also called by setupLoopRegion).
stopMidiFile(c) ==
  [c EXCEPT !.isPlaying = FALSE,
            !.playbackPosition = 0,
            !.currentLoopIteration = 0,
            !.playButton = TRUE,
            !.stopButton = FALSE]

\* stopMidiFile, reached from the stop button or, while playing, the space key.
MC_StopMidiFile ==
  /\ MainOnly
  /\ mc.stopButton \/ mc.isPlaying
  /\ mc' = stopMidiFile(mc)
  /\ mcVoices' = {}
  /\ mcOut' = Out("stop", << >>, << >>, TRUE)
  /\ mcRun' = Dirty(mcRun)
  /\ UNCHANGED mcAsync

\* setupLoopRegion: the dialog's OK callback.
MC_SetupLoopRegion(startBeat, endBeat, loops) ==
  /\ MainOnly
  /\ LET set == [mc EXCEPT !.loopStartBeat = startBeat,
                           !.loopEndBeat = endBeat,
                           !.loopCount = loops,
                           !.isLooping = (loops > 0),
                           !.currentLoopIteration = 0]
         stopped == stopMidiFile(set)
     IN /\ mc' = IF stopped.playbackPosition > stopped.loopEndBeat
                 THEN [stopped EXCEPT !.playbackPosition = stopped.loopStartBeat]
                 ELSE stopped
        /\ mcVoices' = {}
        /\ mcOut' = Out("setup", << >>, << >>, TRUE)
        /\ mcRun' = [Dirty(mcRun) EXCEPT !.exhausted = FALSE]
        /\ UNCHANGED mcAsync

\* clearLoopRegion.
MutClearLoopRegionKeepsIteration(c) ==
  [c EXCEPT !.loopStartBeat = 0,
            !.loopEndBeat = 0,
            !.loopCount = 0,
            !.isLooping = FALSE]

clearLoopRegion(c) ==
  [c EXCEPT !.loopStartBeat = 0,
            !.loopEndBeat = 0,
            !.loopCount = 0,
            !.isLooping = FALSE,
            !.currentLoopIteration = 0]

MC_ClearLoopRegion ==
  /\ MainOnly
  /\ mc' = clearLoopRegion(mc)
  /\ mcOut' = NoOut("clear")
  /\ mcRun' = [Dirty(mcRun) EXCEPT !.exhausted = FALSE]
  /\ UNCHANGED <<mcVoices, mcAsync>>

\* tempoSlider.onValueChange.
MC_TempoChanged(t) ==
  /\ MainOnly
  /\ t # mc.tempo
  /\ mc' = [mc EXCEPT !.tempo = t]
  /\ mcOut' = NoOut("tempo")
  /\ mcRun' = Dirty(mcRun)
  /\ UNCHANGED <<mcVoices, mcAsync>>

\* The callback getNextAudioBlock posts at the end of the file.
MC_AsyncButtons ==
  /\ MainOnly
  /\ mcAsync > 0
  /\ mcAsync' = mcAsync - 1
  /\ mc' = [mc EXCEPT !.playButton = TRUE, !.stopButton = FALSE]
  /\ mcOut' = NoOut("async")
  /\ UNCHANGED <<mcVoices, mcRun>>

MutEntryCheckAlways(c) ==
  IF c.playbackPosition > c.loopEndBeat
  THEN [c EXCEPT !.playbackPosition = c.loopStartBeat]
  ELSE c

\* getNextAudioBlock: the entry check that moves a position beyond the loop's
\* end back to the loop's start.
EntryCheck(c) ==
  IF c.isLooping /\ c.playbackPosition > c.loopEndBeat
  THEN [c EXCEPT !.playbackPosition = c.loopStartBeat]
  ELSE c

\* The run's history after the entry check of a block.
AfterEntryCheck(r, c) ==
  IF EntryCheck(c) # c THEN [r EXCEPT !.resets = @ + 1] ELSE r

MutBlockEndOfFileKeepsPlaying(c, r) ==
  LET seq == c.midiSequence
      currentBeat == c.playbackPosition
      fileEndBeat == FileEndBeat(seq)
      samplesToEnd == Min(NumSamples, BeatsToSamples(fileEndBeat - currentBeat, c.tempo))
      seg == processSegment(seq, 0, samplesToEnd, currentBeat, fileEndBeat, c.tempo)
  IN /\ mc' = [c EXCEPT !.playbackPosition = fileEndBeat]
     /\ mcVoices' = {}
     /\ mcOut' = Out("eof", << seg >>, << >>, TRUE)
     /\ mcAsync' = mcAsync + 1
     /\ mcRun' = r

\* getNextAudioBlock, the end-of-file branch.
MC_BlockEndOfFile(c, r) ==
  LET seq == c.midiSequence
      currentBeat == c.playbackPosition
      fileEndBeat == FileEndBeat(seq)
      samplesToEnd == Min(NumSamples, BeatsToSamples(fileEndBeat - currentBeat, c.tempo))
      seg == processSegment(seq, 0, samplesToEnd, currentBeat, fileEndBeat, c.tempo)
  IN /\ mc' = [c EXCEPT !.playbackPosition = fileEndBeat, !.isPlaying = FALSE]
     /\ mcVoices' = {}
     /\ mcOut' = Out("eof", << seg >>, << >>, TRUE)
     /\ mcAsync' = mcAsync + 1
     /\ mcRun' = r

\* getNextAudioBlock, the branch of a block that reaches loopEndBeat.
MC_BlockLoopEnd(c, r) ==
  LET seq == c.midiSequence
      currentBeat == c.playbackPosition
      samplesToLoopEnd ==
        Min(NumSamples, BeatsToSamples(c.loopEndBeat - currentBeat, c.tempo))
      seg1 == processSegment(seq, 0, samplesToLoopEnd, currentBeat, c.loopEndBeat, c.tempo)
      v1 == ApplyEvents(mcVoices, seq, seg1.buf, 1)
      remainingSamples == NumSamples - samplesToLoopEnd
  IN IF IterationsLeft(c)
     THEN LET idxs == reTriggerSustainedNotesAt(seq, c.loopStartBeat)
              newSegmentEndBeat == c.loopStartBeat + BlockBeats(remainingSamples, c.tempo)
              seg2 == processSegment(seq, samplesToLoopEnd, remainingSamples,
                                     c.loopStartBeat, newSegmentEndBeat, c.tempo)
          IN /\ mc' = [c EXCEPT !.playbackPosition = newSegmentEndBeat,
                                !.currentLoopIteration = @ + 1]
             /\ mcVoices' = ApplyEvents(NoteOnAll({}, seq, idxs), seq, seg2.buf, 1)
             /\ mcOut' = Out("wrap", << seg1, seg2 >>,
                             RetrigLog("wrap", c.loopStartBeat, idxs), TRUE)
             /\ mcRun' = [r EXCEPT !.jumps = @ + 1,
                            !.retrigs = @ \o RetrigLog("wrap", c.loopStartBeat, idxs)]
             /\ UNCHANGED mcAsync
     ELSE LET idxs == reTriggerSustainedNotesAt(seq, c.loopEndBeat)
              extraBeats == BlockBeats(remainingSamples, c.tempo)
              seg2 == processSegment(seq, samplesToLoopEnd, remainingSamples,
                                     c.loopEndBeat, c.loopEndBeat + extraBeats, c.tempo)
          IN /\ mc' = [c EXCEPT !.playbackPosition = c.loopEndBeat + extraBeats,
                                !.isLooping = FALSE,
                                !.currentLoopIteration = 0]
             /\ mcVoices' = ApplyEvents(NoteOnAll(v1, seq, idxs), seq, seg2.buf, 1)
             /\ mcOut' = Out("exit", << seg1, seg2 >>,
                             RetrigLog("exit", c.loopEndBeat, idxs), FALSE)
             /\ mcRun' = [r EXCEPT !.exits = @ + 1,
                            !.exhausted = TRUE,
                            !.retrigs = @ \o RetrigLog("exit", c.loopEndBeat, idxs)]
             /\ UNCHANGED mcAsync

MutBlockDefaultStays(c, r) ==
  LET seq == c.midiSequence
      currentBeat == c.playbackPosition
      blockBeats == BlockBeats(NumSamples, c.tempo)
      seg == processSegment(seq, 0, NumSamples, currentBeat, currentBeat + blockBeats, c.tempo)
  IN /\ mc' = c
     /\ mcVoices' = ApplyEvents(mcVoices, seq, seg.buf, 1)
     /\ mcOut' = Out("block", << seg >>, << >>, FALSE)
     /\ mcRun' = r
     /\ UNCHANGED mcAsync

\* getNextAudioBlock, the default branch: the whole block in one segment.
MC_BlockDefault(c, r) ==
  LET seq == c.midiSequence
      currentBeat == c.playbackPosition
      blockBeats == BlockBeats(NumSamples, c.tempo)
      seg == processSegment(seq, 0, NumSamples, currentBeat, currentBeat + blockBeats, c.tempo)
  IN /\ mc' = [c EXCEPT !.playbackPosition = currentBeat + blockBeats]
     /\ mcVoices' = ApplyEvents(mcVoices, seq, seg.buf, 1)
     /\ mcOut' = Out("block", << seg >>, << >>, FALSE)
     /\ mcRun' = r
     /\ UNCHANGED mcAsync

\* getNextAudioBlock (the audio device is present).
MC_GetNextAudioBlock ==
  /\ MainOnly
  /\ LET c == EntryCheck(mc)
         r == AfterEntryCheck(mcRun, mc)
         blockBeats == BlockBeats(NumSamples, c.tempo)
         currentBeat == c.playbackPosition
     IN IF ~c.isPlaying
        THEN /\ mc' = c
             /\ mcOut' = NoOut("idle")
             /\ mcRun' = r
             /\ UNCHANGED <<mcVoices, mcAsync>>
        ELSE IF ~c.isLooping /\ (currentBeat + blockBeats) >= FileEndBeat(c.midiSequence)
        THEN MC_BlockEndOfFile(c, r)
        ELSE IF c.isLooping /\ (currentBeat + blockBeats) >= c.loopEndBeat
        THEN MC_BlockLoopEnd(c, r)
        ELSE MC_BlockDefault(c, r)

MainNext ==
  \/ \E k \in 1..Len(MidiFiles) : MC_LoadMidiFile(k)
  \/ MC_PlayMidiFile
  \/ MC_StopMidiFile
  \/ \E r \in LoopInputs :
       MC_SetupLoopRegion(convertTicksToBeats(r[1]), convertTicksToBeats(r[2]), r[3])
  \/ MC_ClearLoopRegion
  \/ \E t \in TempoInputs : MC_TempoChanged(t)
  \/ MC_AsyncButtons
  \/ MC_GetNextAudioBlock

\* A run left to itself: the audio device keeps asking for blocks, and the
\* user touches the controls only while nothing is playing. The loop dialog
\* takes any numbers, a region that ends at or before its start included.
RunLoopInputs == LoopInputs \cup { <<2880, 960, 2>>, <<960, 960, 3>> }

MainRunNext ==
  \/ MC_GetNextAudioBlock
  \/ ~mc.isPlaying /\ \E k \in 1..Len(MidiFiles) : MC_LoadMidiFile(k)
  \/ ~mc.isPlaying /\ MC_PlayMidiFile
  \/ ~mc.isPlaying /\ MC_StopMidiFile
  \/ ~mc.isPlaying /\ \E r \in RunLoopInputs :
       MC_SetupLoopRegion(convertTicksToBeats(r[1]), convertTicksToBeats(r[2]), r[3])
  \/ ~mc.isPlaying /\ MC_ClearLoopRegion
  \/ ~mc.isPlaying /\ \E t \in TempoInputs : MC_TempoChanged(t)
  \/ ~mc.isPlaying /\ MC_AsyncButtons

\* =================================================================
\* MidiSchedulerAudioSource (src/Source/MidiSchedulerAudioSource.cpp)
\* =================================================================
\* A double that holds a tempo in microseconds per quarter note is modelled
\* as the quotient it was computed from: [num, den] is the double nearest to
\* num / den, and den = 1 when the value is an integer.
Exact(x) == [num |-> x, den |-> 1]

\* `60000000.0 / newTempo`: one correctly rounded division.
DoubleDiv(num, den) == IF num % den = 0 THEN Exact(num \div den) ELSE [num |-> num, den |-> den]

RECURSIVE Pow2(_)
Pow2(n) == IF n = 0 THEN 1 ELSE 2 * Pow2(n - 1)

\* 2^s modulo b, by repeated squaring.
RECURSIVE Pow2Mod(_, _)
Pow2Mod(s, b) ==
  IF s = 0 THEN 1 % b
  ELSE LET half == Pow2Mod(s \div 2, b)
       IN (half * half * (IF s % 2 = 1 THEN 2 ELSE 1)) % b

\* The binary exponent of x >= 1: the greatest k with 2^k <= x.
RECURSIVE Exponent(_)
Exponent(x) == IF x < 2 THEN 0 ELSE 1 + Exponent(x \div 2)

\* `60000000.0 / (60000000.0 / bpm)` for an integer bpm, as the distance of
\* the result from bpm in units in the last place (53-bit significands,
\* round to nearest).  The inner quotient is M * 2^-s with M the integer
\* nearest to 60000000 * 2^s / bpm, s = 52 - Exponent(60000000 / bpm); it
\* misses the exact quotient by e / (bpm * 2^s), e = 60000000 * 2^s - bpm * M.
\* The outer quotient 60000000 * 2^s / M rounds back to bpm exactly when
\* |e| * 2^(52 - Exponent(bpm)) <= M / 2.
DoubleRoundTrip(bpm) ==
  LET kq == Exponent(60000000 \div bpm)
      kr == Exponent(bpm)
      rem == ((60000000 % bpm) * Pow2Mod(52 - kq, bpm)) % bpm
      e == IF 2 * rem < bpm THEN rem ELSE rem - bpm
      lhs == (IF e < 0 THEN -e ELSE e) * bpm * Pow2(1 + kq - kr)
  IN IF e = 0 THEN 0
     ELSE IF e > 0 THEN (IF lhs < 60000000 THEN 0 ELSE 1)
     ELSE (IF lhs <= 60000000 THEN 0 ELSE -1)

\* DoubleRoundTrip, tabulated for the tempi setTempo is called with.
DoubleRoundTripOf == [bpm \in SchedTempoInputs |-> DoubleRoundTrip(bpm)]

\* extractTempoEvents: the tempo meta-events of the sequence, in order.
RECURSIVE TempoScan(_, _)
TempoScan(seq, i) ==
  IF i > Len(seq) THEN << >>
  ELSE (IF seq[i].kind = "tempo"
        THEN << [timestamp |-> seq[i].tick, tempo |-> Exact(seq[i].note)] >>
        ELSE << >>) \o TempoScan(seq, i + 1)

\* std::sort of the tempo events by timestamp (insertion into a sorted list).
RECURSIVE SortByTimestamp(_)
SortByTimestamp(evs) ==
  IF Len(evs) <= 1 THEN evs
  ELSE LET rest == SortByTimestamp(Tail(evs))
           e == Head(evs)
           before == SelectSeq(rest, LAMBDA x : x.timestamp < e.timestamp)
           after == SelectSeq(rest, LAMBDA x : ~(x.timestamp < e.timestamp))
       IN before \o << e >> \o after

MutExtractNoDefault(seq) == SortByTimestamp(TempoScan(seq, 1))

\* extractTempoEvents: the tempo table of a sequence.
extractTempoEvents(seq) ==
  LET found == SortByTimestamp(TempoScan(seq, 1))
  IN IF Len(found) = 0 THEN << [timestamp |-> 0, tempo |-> Exact(500000)] >> ELSE found

\* extractTempoEvents: the initial tempo, that of the first tempo event met.
InitialTempo(seq) ==
  LET found == TempoScan(seq, 1)
  IN IF Len(found) = 0 THEN 120 ELSE 60000000 \div found[1].tempo.num

RECURSIVE MutUpperBoundStrict(_, _, _)
MutUpperBoundStrict(tempoEvents, position, k) ==
  IF k > Len(tempoEvents) THEN Len(tempoEvents)
  ELSE IF position <= convertTicksToBeats(tempoEvents[k].timestamp) THEN k - 1
  ELSE MutUpperBoundStrict(tempoEvents, position, k + 1)

\* std::upper_bound: the number of entries whose timestamp is <= the position.
RECURSIVE UpperBound(_, _, _)
UpperBound(tempoEvents, position, k) ==
  IF k > Len(tempoEvents) THEN Len(tempoEvents)
  ELSE IF position < convertTicksToBeats(tempoEvents[k].timestamp) THEN k - 1
  ELSE UpperBound(tempoEvents, position, k + 1)

\* getCurrentTempo(playbackPosition * ppq), in BPM: the integer nearest to
\* the double returned.
getCurrentTempo(tempoEvents, position) ==
  LET it == UpperBound(tempoEvents, position, 1)
  IN IF it = 0 THEN 120
     ELSE IF tempoEvents[it].tempo.den = 1 THEN 60000000 \div tempoEvents[it].tempo.num
     ELSE tempoEvents[it].tempo.den

\* getCurrentTempo: the distance of the double returned from that integer,
\* in units in the last place.
getCurrentTempoUlps(tempoEvents, position) ==
  LET it == UpperBound(tempoEvents, position, 1)
  IN IF it = 0 THEN 0
     ELSE IF tempoEvents[it].tempo.den = 1 THEN 0
     ELSE DoubleRoundTripOf[tempoEvents[it].tempo.den]

RECURSIVE MutDispatchNewestFirst(_, _, _, _, _, _)
MutDispatchNewestFirst(seq, i, endEventIndex, currentBeat, tempo, limit) ==
  IF ~(i < endEventIndex /\ i < Len(seq)) THEN << >>
  ELSE LET eventBeat == convertTicksToBeats(seq[i + 1].tick)
           sampleOffset == BeatsToSamples(eventBeat - currentBeat, tempo)
       IN MutDispatchNewestFirst(seq, i + 1, endEventIndex, currentBeat, tempo, limit)
          \o (IF sampleOffset >= 0 /\ sampleOffset < limit
              THEN << [idx |-> i, pos |-> sampleOffset] >>
              ELSE << >>)

\* The loop of getNextAudioBlock over the events startEventIndex..endEventIndex-1:
\* the MidiBuffer, each entry an event index and its sample offset.
RECURSIVE DispatchScan(_, _, _, _, _, _)
DispatchScan(seq, i, endEventIndex, currentBeat, tempo, limit) ==
  IF ~(i < endEventIndex /\ i < Len(seq)) THEN << >>
  ELSE LET eventBeat == convertTicksToBeats(seq[i + 1].tick)
           sampleOffset == BeatsToSamples(eventBeat - currentBeat, tempo)
       IN (IF sampleOffset >= 0 /\ sampleOffset < limit
           THEN << [idx |-> i, pos |-> sampleOffset] >>
           ELSE << >>)
          \o DispatchScan(seq, i + 1, endEventIndex, currentBeat, tempo, limit)

\* setLoopRegion: "isLooping = (loops > 0 && endBeat > startBeat)".
LoopActive(startBeat, endBeat, loops) == loops > 0 /\ endBeat > startBeat

\* What a block did.  loopActive, itersLeft and loopEnd are the loop state
\* the block rendered under (after its looping check).
SchBlock(op, startBeat, endBeat, numSamples, buf, c, wrapped) ==
  [op |-> op, startBeat |-> startBeat, endBeat |-> endBeat, numSamples |-> numSamples,
   buf |-> buf, loopActive |-> c.isLooping,
   itersLeft |-> c.currentLoopIteration < c.loopCount - 1,
   loopEnd |-> c.loopEndBeat, wrapped |-> wrapped]

SchNoOut(op) ==
  [op |-> op, startBeat |-> 0, endBeat |-> 0, numSamples |-> 0, buf |-> << >>,
   loopActive |-> FALSE, itersLeft |-> FALSE, loopEnd |-> 0, wrapped |-> FALSE]

\* The history of a run: the notifications posted since startPlayback (the
\* count stops one above MaxAsync), and whether a stop was requested in
\* mid-loop.
SchNewRun ==
  [posts |-> 0, stoppedInLoop |-> FALSE, clean |-> FALSE, runTempo |-> 0, added |-> << >>]

\* The history of a run that startPlayback begins.  clean: the run began at
\* position 0 of a sequence with no loop region and has seen no control call
\* and one tempo since; runTempo: that tempo, 0 before the first block;
\* added: per event, how often a block of the clean run has added it to its
\* MIDI buffer (the count stops at 2).
SchStartRun(c) ==
  IF c.playbackPosition = 0 /\ c.loopCount = 0 /\ Len(c.midiSequence) > 0
  THEN [SchNewRun EXCEPT !.clean = TRUE, !.added = [i \in 1..Len(c.midiSequence) |-> 0]]
  ELSE SchNewRun

\* A control call during the run: the run is no longer uninterrupted.
SchInterrupted(run) == [run EXCEPT !.clean = FALSE, !.runTempo = 0, !.added = << >>]

\* The counts after a block that added the events of buf.
RECURSIVE MarkAdded(_, _, _)
MarkAdded(added, buf, k) ==
  IF k > Len(buf) THEN added
  ELSE MarkAdded([added EXCEPT ![buf[k].idx + 1] = Min(@ + 1, 2)], buf, k + 1)

\* The history after a block at currentTempo that added the events of buf.
SchRunBlock(run, currentTempo, buf) ==
  IF ~run.clean THEN run
  ELSE IF run.runTempo \notin {0, currentTempo} THEN SchInterrupted(run)
  ELSE [run EXCEPT !.runTempo = currentTempo, !.added = MarkAdded(@, buf, 1)]

SchedInit ==
  /\ sched = [isPlaying |-> FALSE,
              isLooping |-> FALSE,
              loopStartBeat |-> 0,
              loopEndBeat |-> 0,
              loopCount |-> 0,
              currentLoopIteration |-> 0,
              playbackPosition |-> 0,
              tempo |-> 120,
              tempoUlps |-> 0,
              tempoEvents |-> << >>,
              midiSequence |-> SeqEmpty]
  /\ schVoices = {}
  /\ schOut = SchNoOut("init")
  /\ schRun = SchNewRun
  /\ schAsync = 0

\* setMidiSequence.
Sch_SetMidiSequence(k) ==
  /\ SchedOnly
  /\ sched' = [sched EXCEPT !.midiSequence = SchedFiles[k],
                            !.playbackPosition = 0,
                            !.tempoEvents = extractTempoEvents(SchedFiles[k]),
                            !.tempo = InitialTempo(SchedFiles[k]),
                            !.tempoUlps = 0]
  /\ schOut' = SchNoOut("setMidiSequence")
  /\ schRun' = SchInterrupted(schRun)
  /\ UNCHANGED <<schVoices, schAsync>>

\* startPlayback.
startPlayback(c) == [c EXCEPT !.isPlaying = TRUE, !.isLooping = TRUE]

Sch_StartPlayback ==
  /\ SchedOnly
  /\ sched' = startPlayback(sched)
  /\ schOut' = SchNoOut("startPlayback")
  /\ schRun' = SchStartRun(sched)
  /\ UNCHANGED <<schVoices, schAsync>>

\* stopPlayback.
stopPlayback(c) == [c EXCEPT !.isPlaying = FALSE]

Sch_StopPlayback ==
  /\ SchedOnly
  /\ sched' = stopPlayback(sched)
  /\ schOut' = SchNoOut("stopPlayback")
  /\ schRun' = [SchInterrupted(schRun) EXCEPT !.stoppedInLoop = sched.currentLoopIteration > 0]
  /\ UNCHANGED <<schVoices, schAsync>>

MutSetTempoNoClear(c, newTempo) ==
  [c EXCEPT !.tempo = newTempo, !.tempoUlps = 0,
            !.tempoEvents = @ \o << [timestamp |-> 0, tempo |-> DoubleDiv(60000000, newTempo)] >>]

\* setTempo.
setTempo(c, newTempo) ==
  [c EXCEPT !.tempo = newTempo, !.tempoUlps = 0,
            !.tempoEvents = << [timestamp |-> 0, tempo |-> DoubleDiv(60000000, newTempo)] >>]

Sch_SetTempo(newTempo) ==
  /\ SchedOnly
  /\ sched' = setTempo(sched, newTempo)
  /\ schOut' = SchNoOut("setTempo")
  /\ schRun' = SchInterrupted(schRun)
  /\ UNCHANGED <<schVoices, schAsync>>

\* setLoopRegion.
setLoopRegion(c, startBeat, endBeat, loops) ==
  [c EXCEPT !.loopStartBeat = startBeat,
            !.loopEndBeat = endBeat,
            !.loopCount = loops,
            !.currentLoopIteration = 0,
            !.isLooping = LoopActive(startBeat, endBeat, loops),
            !.playbackPosition = startBeat]

Sch_SetLoopRegion(startBeat, endBeat, loops) ==
  /\ SchedOnly
  /\ sched' = setLoopRegion(sched, startBeat, endBeat, loops)
  /\ schOut' = SchNoOut("setLoopRegion")
  /\ schRun' = SchInterrupted(schRun)
  /\ UNCHANGED <<schVoices, schAsync>>

\* The message thread runs a posted onPlaybackStopped callback.
Sch_AsyncStopped ==
  /\ SchedOnly
  /\ schAsync > 0
  /\ schAsync' = schAsync - 1
  /\ schOut' = SchNoOut("onPlaybackStopped")
  /\ UNCHANGED <<sched, schVoices, schRun>>

\* getNextAudioBlock: the looping check.
LoopingCheck(c) ==
  IF c.isLooping /\ c.playbackPosition > c.loopEndBeat
  THEN IF c.currentLoopIteration < c.loopCount - 1
       THEN [c EXCEPT !.currentLoopIteration = @ + 1,
                      !.playbackPosition = c.loopStartBeat]
       ELSE [c EXCEPT !.isLooping = FALSE, !.currentLoopIteration = 0]
  ELSE c

\* getNextAudioBlock, the end-of-file branch:
\* static_cast<int>(beatsToEnd * currentSampleRate / (60.0 / currentTempo))
SchedSamplesToEnd(beats, tempo) == TruncDiv(beats * tempo, PPQ * 3600)

\* getNextAudioBlock from the end-of-file check on: the block rendered from
\* the position c.playbackPosition under the flag c.isLooping.
RenderBlock(c, currentTempo) ==
  LET seq == c.midiSequence
      currentBeat == c.playbackPosition
      beatsPerBlock == BlockBeats(NumSamples, currentTempo)
      fileEndBeat == IF Len(seq) > 0
                     THEN convertTicksToBeats(seq[Len(seq)].tick) + BeatUnits
                     ELSE 0
  IN IF ~c.isLooping /\ (currentBeat + beatsPerBlock) >= fileEndBeat
     THEN LET samplesToEnd ==
                Min(NumSamples, SchedSamplesToEnd(fileEndBeat - currentBeat, currentTempo))
          IN [op |-> "eof", endBeat |-> fileEndBeat, numSamples |-> samplesToEnd,
              buf |-> DispatchScan(seq, findEventIndexForBeat(seq, currentBeat),
                                   findEventIndexForBeat(seq, fileEndBeat),
                                   currentBeat, currentTempo, samplesToEnd)]
     ELSE [op |-> "block", endBeat |-> currentBeat + beatsPerBlock,
           numSamples |-> NumSamples,
           buf |-> DispatchScan(seq, findEventIndexForBeat(seq, currentBeat),
                                findEventIndexForBeat(seq, currentBeat + beatsPerBlock),
                                currentBeat, currentTempo, NumSamples)]

\* getNextAudioBlock (the synth is present; onPlaybackStopped is set).
Sch_GetNextAudioBlock ==
  /\ SchedOnly
  /\ IF ~sched.isPlaying
     THEN /\ schOut' = SchNoOut("idle")
          /\ UNCHANGED <<sched, schVoices, schRun, schAsync>>
     ELSE
       LET currentTempo == getCurrentTempo(sched.tempoEvents, sched.playbackPosition)
           ulps == getCurrentTempoUlps(sched.tempoEvents, sched.playbackPosition)
           c == [LoopingCheck(sched) EXCEPT !.tempo = currentTempo, !.tempoUlps = ulps]
           wrapped == c.playbackPosition # sched.playbackPosition
           r == RenderBlock(c, currentTempo)
       IN /\ sched' = [c EXCEPT !.playbackPosition = r.endBeat]
          /\ schVoices' = ApplyEvents(schVoices, c.midiSequence, r.buf, 1)
          /\ schOut' = SchBlock(r.op, c.playbackPosition, r.endBeat, r.numSamples,
                                r.buf, c, wrapped)
          /\ schAsync' = IF r.op = "eof" THEN Min(schAsync + 1, MaxAsync) ELSE schAsync
          /\ schRun' = LET run == SchRunBlock(schRun, currentTempo, r.buf)
                       IN IF r.op = "eof"
                          THEN [run EXCEPT !.posts = Min(@ + 1, MaxAsync + 1)]
                          ELSE run

SchedNext ==
  \/ \E k \in 1..Len(SchedFiles) : Sch_SetMidiSequence(k)
  \/ Sch_StartPlayback
  \/ Sch_StopPlayback
  \/ \E t \in SchedTempoInputs : Sch_SetTempo(t)
  \/ \E r \in LoopInputs :
       Sch_SetLoopRegion(convertTicksToBeats(r[1]), convertTicksToBeats(r[2]), r[3])
  \/ Sch_AsyncStopped
  \/ Sch_GetNextAudioBlock

\* =================================================================
\* MidiSchedulerAudioSource, one memory access at a time: the audio thread in
\* getNextAudioBlock, the control thread in setLoopRegion.  The loop fields
\* are plain members and no lock is taken, so every interleaving of the two
\* threads' accesses is possible.
\* =================================================================
LoopFields == {"loopStartBeat", "loopEndBeat", "loopCount", "currentLoopIteration",
               "isLooping"}

\* The steps of setLoopRegion after its first assignment, and of setTempo
\* after tempo.store.
LoopSteps == {"loopEndBeat", "loopCount", "currentLoopIteration", "isLooping", "playbackPosition"}

TempoSteps == {"tempoClear", "tempoPush"}

\* begun: per field, how many writes had been made when the block began, and
\* whether the control thread was outside every call then; tempoSeen: the
\* writes made to the tempo table when the block read it.
AudioIdle ==
  [pc |-> "idle", currentBeat |-> 0, currentTempo |-> 120, iteration |-> 0,
   wrapped |-> FALSE, seen |-> {}, tempoSeen |-> {},
   begun |-> [loop |-> 0, tempo |-> 0, quiet |-> TRUE]]

ControlIdle == [pc |-> "idle", startBeat |-> 0, endBeat |-> 0, loops |-> 0, newTempo |-> 0]

ThreadsAtRest ==
  /\ audio = AudioIdle
  /\ control = ControlIdle
  /\ written = [f \in LoopFields \cup {"tempoEvents"} |-> 0]

\* The audio thread reads a loop field: the setLoopRegion call (by number,
\* 0 before the first) that wrote the value it gets joins the calls seen.
Seen(f) == audio.seen \cup {written[f]}

\* The history variables schOut and schRun belong to the specification of
\* atomic calls and are left alone here.
AudioOnly == UNCHANGED <<mainVars, control, written, schOut, schRun, fn, moreVars>>

\* getNextAudioBlock, the isPlaying test.
Aud_Begin ==
  /\ AudioOnly
  /\ audio.pc = "idle"
  /\ audio' = IF ~sched.isPlaying THEN AudioIdle
               ELSE [AudioIdle EXCEPT !.pc = "tempo",
                                      !.begun = [loop |-> written["loopStartBeat"],
                                                 tempo |-> written["tempoEvents"],
                                                 quiet |-> control.pc = "idle"]]
  /\ UNCHANGED <<sched, schVoices, schAsync>>

\* getNextAudioBlock, the tempo at the position, stored for the UI.
Aud_Tempo ==
  /\ AudioOnly
  /\ audio.pc = "tempo"
  /\ LET currentTempo == getCurrentTempo(sched.tempoEvents, sched.playbackPosition)
     IN /\ audio' = [audio EXCEPT !.pc = "position", !.currentTempo = currentTempo,
                                  !.tempoSeen = {written["tempoEvents"]}]
        /\ sched' = [sched EXCEPT !.tempo = currentTempo,
                                  !.tempoUlps = getCurrentTempoUlps(sched.tempoEvents, sched.playbackPosition)]
  /\ UNCHANGED <<schVoices, schAsync>>

\* getNextAudioBlock, currentBeat = playbackPosition.load().
Aud_Position ==
  /\ AudioOnly
  /\ audio.pc = "position"
  /\ audio' = [audio EXCEPT !.pc = "isLooping", !.currentBeat = sched.playbackPosition]
  /\ UNCHANGED <<sched, schVoices, schAsync>>

\* The looping check reads isLooping.
Aud_ReadIsLooping ==
  /\ AudioOnly
  /\ audio.pc = "isLooping"
  /\ audio' = [audio EXCEPT !.pc = IF sched.isLooping THEN "loopEndBeat" ELSE "render",
                            !.seen = Seen("isLooping")]
  /\ UNCHANGED <<sched, schVoices, schAsync>>

\* The looping check reads loopEndBeat.
Aud_ReadLoopEndBeat ==
  /\ AudioOnly
  /\ audio.pc = "loopEndBeat"
  /\ audio' = [audio EXCEPT !.pc = IF audio.currentBeat > sched.loopEndBeat
                                   THEN "currentLoopIteration" ELSE "render",
                            !.seen = Seen("loopEndBeat")]
  /\ UNCHANGED <<sched, schVoices, schAsync>>

\* The looping check reads currentLoopIteration.
Aud_ReadIteration ==
  /\ AudioOnly
  /\ audio.pc = "currentLoopIteration"
  /\ audio' = [audio EXCEPT !.pc = "loopCount",
                            !.iteration = sched.currentLoopIteration,
                            !.seen = Seen("currentLoopIteration")]
  /\ UNCHANGED <<sched, schVoices, schAsync>>

\* The looping check reads loopCount.
Aud_ReadLoopCount ==
  /\ AudioOnly
  /\ audio.pc = "loopCount"
  /\ audio' = [audio EXCEPT !.pc = IF audio.iteration < sched.loopCount - 1
                                   THEN "increment" ELSE "exit",
                            !.seen = Seen("loopCount")]
  /\ UNCHANGED <<sched, schVoices, schAsync>>

\* The looping check, ++currentLoopIteration.
Aud_Increment ==
  /\ AudioOnly
  /\ audio.pc = "increment"
  /\ sched' = [sched EXCEPT !.currentLoopIteration = @ + 1]
  /\ audio' = [audio EXCEPT !.pc = "loopStartBeat"]
  /\ UNCHANGED <<schVoices, schAsync>>

\* The looping check reads loopStartBeat and stores it as the position.
Aud_ReadLoopStartBeat ==
  /\ AudioOnly
  /\ audio.pc = "loopStartBeat"
  /\ sched' = [sched EXCEPT !.playbackPosition = sched.loopStartBeat]
  /\ audio' = [audio EXCEPT !.pc = "render",
                            !.currentBeat = sched.loopStartBeat,
                            !.wrapped = TRUE,
                            !.seen = Seen("loopStartBeat")]
  /\ UNCHANGED <<schVoices, schAsync>>

\* The looping check leaves loop mode.
Aud_ExitLoop ==
  /\ AudioOnly
  /\ audio.pc = "exit"
  /\ sched' = [sched EXCEPT !.isLooping = FALSE, !.currentLoopIteration = 0]
  /\ audio' = [audio EXCEPT !.pc = "render"]
  /\ UNCHANGED <<schVoices, schAsync>>

\* The end-of-file check reads isLooping again; the block is rendered from
\* the local currentBeat and the position is stored.
Aud_Render ==
  /\ AudioOnly
  /\ audio.pc = "render"
  /\ LET c == [sched EXCEPT !.playbackPosition = audio.currentBeat]
         r == RenderBlock(c, audio.currentTempo)
     IN /\ r.endBeat <= convertTicksToBeats(MaxTick)
        /\ sched' = [sched EXCEPT !.playbackPosition = r.endBeat]
        /\ schVoices' = ApplyEvents(schVoices, c.midiSequence, r.buf, 1)
        /\ schAsync' = IF r.op = "eof" THEN Min(schAsync + 1, MaxAsync) ELSE schAsync
  /\ audio' = [audio EXCEPT !.pc = "idle", !.seen = Seen("isLooping")]

ControlOnly == UNCHANGED <<mainVars, audio, schVoices, schOut, schRun, schAsync, fn, moreVars>>

\* setLoopRegion is called: its first assignment, loopStartBeat = startBeat.
Ctl_SetLoopRegion(startBeat, endBeat, loops) ==
  /\ ControlOnly
  /\ control.pc = "idle"
  /\ written["loopStartBeat"] < MaxLoopCalls
  /\ sched' = [sched EXCEPT !.loopStartBeat = startBeat]
  /\ control' = [pc |-> "loopEndBeat", startBeat |-> startBeat, endBeat |-> endBeat,
                 loops |-> loops, newTempo |-> 0]
  /\ written' = [written EXCEPT !["loopStartBeat"] = @ + 1]

\* setLoopRegion, its next assignment.
Ctl_SetLoopRegionStep ==
  /\ ControlOnly
  /\ control.pc \in LoopSteps
  /\ CASE control.pc = "loopEndBeat" ->
            /\ sched' = [sched EXCEPT !.loopEndBeat = control.endBeat]
            /\ control' = [control EXCEPT !.pc = "loopCount"]
            /\ written' = [written EXCEPT !["loopEndBeat"] = @ + 1]
       [] control.pc = "loopCount" ->
            /\ sched' = [sched EXCEPT !.loopCount = control.loops]
            /\ control' = [control EXCEPT !.pc = "currentLoopIteration"]
            /\ written' = [written EXCEPT !["loopCount"] = @ + 1]
       [] control.pc = "currentLoopIteration" ->
            /\ sched' = [sched EXCEPT !.currentLoopIteration = 0]
            /\ control' = [control EXCEPT !.pc = "isLooping"]
            /\ written' = [written EXCEPT !["currentLoopIteration"] = @ + 1]
       [] control.pc = "isLooping" ->
            /\ sched' = [sched EXCEPT !.isLooping =
                           LoopActive(control.startBeat, control.endBeat, control.loops)]
            /\ control' = [control EXCEPT !.pc = "playbackPosition"]
            /\ written' = [written EXCEPT !["isLooping"] = @ + 1]
       [] control.pc = "playbackPosition" ->
            /\ sched' = [sched EXCEPT !.playbackPosition = sched.loopStartBeat]
            /\ control' = ControlIdle
            /\ written' = written

\* setTempo is called: tempo.store(newTempo).
Ctl_SetTempo(newTempo) ==
  /\ ControlOnly
  /\ control.pc = "idle"
  /\ written["tempoEvents"] < 2 * MaxTempoCalls
  /\ sched' = [sched EXCEPT !.tempo = newTempo, !.tempoUlps = 0]
  /\ control' = [ControlIdle EXCEPT !.pc = "tempoClear", !.newTempo = newTempo]
  /\ UNCHANGED written

\* setTempo, tempoEvents.clear() and then tempoEvents.push_back.  The vector
\* is not guarded: a getCurrentTempo between the two finds it empty.
Ctl_SetTempoStep ==
  /\ ControlOnly
  /\ control.pc \in TempoSteps
  /\ written' = [written EXCEPT !["tempoEvents"] = @ + 1]
  /\ IF control.pc = "tempoClear"
     THEN /\ sched' = [sched EXCEPT !.tempoEvents = << >>]
          /\ control' = [control EXCEPT !.pc = "tempoPush"]
     ELSE /\ sched' = [sched EXCEPT !.tempoEvents =
                         << [timestamp |-> 0, tempo |-> DoubleDiv(60000000, control.newTempo)] >>]
          /\ control' = ControlIdle

\* The control thread makes one call at a time.
Ctl_SetMidiSequence(k) ==
  /\ ControlOnly
  /\ control.pc = "idle"
  /\ sched' = [sched EXCEPT !.midiSequence = SchedFiles[k],
                            !.playbackPosition = 0,
                            !.tempoEvents = extractTempoEvents(SchedFiles[k]),
                            !.tempo = InitialTempo(SchedFiles[k]),
                            !.tempoUlps = 0]
  /\ UNCHANGED <<control, written>>

Ctl_StartPlayback ==
  /\ ControlOnly
  /\ control.pc = "idle"
  /\ sched' = startPlayback(sched)
  /\ UNCHANGED <<control, written>>

Ctl_StopPlayback ==
  /\ ControlOnly
  /\ control.pc = "idle"
  /\ sched' = stopPlayback(sched)
  /\ UNCHANGED <<control, written>>

\* The message thread runs a posted onPlaybackStopped callback.
Ctl_AsyncStopped ==
  /\ UNCHANGED <<mainVars, threadVars, fn, moreVars>>
  /\ schAsync > 0
  /\ schAsync' = schAsync - 1
  /\ UNCHANGED <<sched, schVoices, schOut, schRun>>

\* The inputs of the two-thread specification: the sequence SeqMix, and two
\* loop regions that differ in every field.
ThreadFiles == {2}
ThreadLoopInputs == { <<0, 960, 2>>, <<960, 1920, 1>> }
\* The tempo setTempo is called with: half the tempo of the sequence.
ThreadTempoInputs == {60}

ThreadsNext ==
  \/ \E k \in ThreadFiles : Ctl_SetMidiSequence(k)
  \/ Ctl_StartPlayback
  \/ Ctl_StopPlayback
  \/ \E r \in ThreadLoopInputs :
       Ctl_SetLoopRegion(convertTicksToBeats(r[1]), convertTicksToBeats(r[2]), r[3])
  \/ Ctl_SetLoopRegionStep
  \/ \E t \in ThreadTempoInputs : Ctl_SetTempo(t)
  \/ Ctl_SetTempoStep
  \/ Ctl_AsyncStopped
  \/ Aud_Begin
  \/ Aud_Tempo
  \/ Aud_Position
  \/ Aud_ReadIsLooping
  \/ Aud_ReadLoopEndBeat
  \/ Aud_ReadIteration
  \/ Aud_ReadLoopCount
  \/ Aud_Increment
  \/ Aud_ReadLoopStartBeat
  \/ Aud_ExitLoop
  \/ Aud_Render

\* =================================================================
\* Single calls: one function applied to inputs of its own
\* =================================================================
\* The ticks of the events, tempo entries, positions and boundaries drawn.
FnTicks == {0, 200, 240, 480, 960}

\* The sequences drawn: the sorted sequences of up to FnMaxLen note events.
FnEvents == { Ev(t, k, 1, 60) : t \in FnTicks, k \in {"on", "off"} }

FnSeqs == { s \in UNION { [1..n -> FnEvents] : n \in 0..FnMaxLen } : SortedByTick(s) }

\* The tempo tables drawn: the tables of up to FnMaxLen entries sorted by
\* tick (extractTempoEvents sorts), the empty table of the constructor among
\* them.
FnTempoEntries == { [timestamp |-> t, tempo |-> Exact(us)] : t \in {0, 240, 960}, us \in {500000, 1000000} }

FnTempoTables == { s \in UNION { [1..n -> FnTempoEntries] : n \in 0..FnMaxLen } : \A i \in 1..(Len(s) - 1) : s[i].timestamp <= s[i + 1].timestamp }

\* The ticks of the events and of the queries of the event searches.
FnFindTicks == {0, 31, 123, 240, 970}

FnFindSeqs == { s \in UNION { [1..n -> { Ev(t, "on", 1, 60) : t \in FnFindTicks }] : n \in 0..FnMaxLen } : SortedByTick(s) }

FnIdle == [pc |-> "idle", op |-> "none", seq |-> << >>, tempoEvents |-> << >>, beat |-> 0, endBeat |-> 0, tempo |-> 120, result |-> << >>]

FnAtRest == fn = FnIdle

FnCall(op, seq, tempoEvents, beat, endBeat, tempo) == [pc |-> "call", op |-> op, seq |-> seq, tempoEvents |-> tempoEvents, beat |-> beat, endBeat |-> endBeat, tempo |-> tempo, result |-> << >>]

\* The calls drawn.  A block reaches the loop-end branch with its position
\* below loopEndBeat (the entry check of getNextAudioBlock).
FnInputs ==
  { FnCall("getCurrentTempo", << >>, t, convertTicksToBeats(q), 0, 120) :
      t \in FnTempoTables, q \in FnTicks }
  \cup { c \in { FnCall("loopEndSegment", s, << >>, convertTicksToBeats(b),
                        convertTicksToBeats(e), t) :
                   s \in FnSeqs, b \in FnTicks, e \in FnTicks, t \in TempoInputs } :
           c.beat < c.endBeat }
  \cup { FnCall("reTriggerSustainedNotesAt", s, << >>, convertTicksToBeats(b), 0, 120) :
           s \in FnSeqs, b \in FnTicks }
  \cup { FnCall("setMidiSequence", s, << >>, 0, 0, 120) : s \in FnSeqs }
  \cup { FnCall("findEventIndexForBeat", s, << >>, convertTicksToBeats(q), 0, 120) :
           s \in FnFindSeqs, q \in FnFindTicks }

FnOnly == UNCHANGED <<mainVars, schedVars, threadVars, moreVars>>

\* MidiSchedulerAudioSource::getCurrentTempo.
Fn_GetCurrentTempo ==
  /\ FnOnly
  /\ fn.pc = "call" /\ fn.op = "getCurrentTempo"
  /\ fn' = [fn EXCEPT !.pc = "done",
                      !.result = [bpm |-> getCurrentTempo(fn.tempoEvents, fn.beat),
                                  ulps |-> getCurrentTempoUlps(fn.tempoEvents, fn.beat)]]

\* MainComponent::getNextAudioBlock, the looping case: the segment from
\* currentBeat up to loopEndBeat.
LoopEndSegment(seq, currentBeat, loopEndBeat, tempo) ==
  LET samplesToLoopEnd == Min(NumSamples, BeatsToSamples(loopEndBeat - currentBeat, tempo))
  IN processSegment(seq, 0, samplesToLoopEnd, currentBeat, loopEndBeat, tempo)

Fn_LoopEndSegment ==
  /\ FnOnly
  /\ fn.pc = "call" /\ fn.op = "loopEndSegment"
  /\ (fn.beat + BlockBeats(NumSamples, fn.tempo)) >= fn.endBeat
  /\ fn' = [fn EXCEPT !.pc = "done",
                      !.result = LoopEndSegment(fn.seq, fn.beat, fn.endBeat, fn.tempo)]

\* MainComponent::reTriggerSustainedNotesAt.
Fn_ReTriggerSustainedNotesAt ==
  /\ FnOnly
  /\ fn.pc = "call" /\ fn.op = "reTriggerSustainedNotesAt"
  /\ fn' = [fn EXCEPT !.pc = "done",
                      !.result = reTriggerSustainedNotesAt(fn.seq, fn.beat)]

\* PianoRollComponent::setMidiSequence: lastTimestamp, the greatest tick.
RECURSIVE LastTimestamp(_, _)
LastTimestamp(seq, i) ==
  IF i >= Len(seq) THEN 0
  ELSE LET rest == LastTimestamp(seq, i + 1)
       IN IF seq[i + 1].tick > rest THEN seq[i + 1].tick ELSE rest

\* PianoRollComponent::setMidiSequence: the notes, one per note-on, in the
\* order of the sequence; idx is the note-on's index.
RECURSIVE PianoRollNotes(_, _)
PianoRollNotes(seq, i) ==
  IF i >= Len(seq) THEN << >>
  ELSE LET event == seq[i + 1]
           sequenceLength == convertTicksToBeats(LastTimestamp(seq, 0))
           noteOffEvent == noteOffObject(seq, i)
           note == [idx |-> i,
                    noteNumber |-> event.note,
                    startBeat |-> convertTicksToBeats(event.tick),
                    channel |-> event.chan - 1,
                    endBeat |-> IF noteOffEvent # -1
                                THEN convertTicksToBeats(seq[noteOffEvent + 1].tick)
                                ELSE sequenceLength + BeatUnits]
       IN (IF event.kind = "on" THEN << note >> ELSE << >>) \o PianoRollNotes(seq, i + 1)

Fn_PianoRollSetMidiSequence ==
  /\ FnOnly
  /\ fn.pc = "call" /\ fn.op = "setMidiSequence"
  /\ fn' = [fn EXCEPT !.pc = "done", !.result = PianoRollNotes(fn.seq, 0)]

\* convertBeatsToTicks(convertTicksToBeats(t)), the double (t / 480.0) * 480.0
\* for a tick t, as the side of t it falls on: 0 when it is t, 1 when it is
\* above t, -1 when below (53-bit significands, round to nearest).  The
\* quotient is M * 2^-s with M the integer nearest to t * 2^s / 480,
\* s = 52 - (exponent of t / 480); with e = t * 2^s - 480 * M the product is
\* t - e * 2^-s, which rounds to t exactly when |e| * 2^-s is at most half
\* the spacing of the doubles at t.
TickRoundTrip(t) ==
  IF t = 0 THEN 0
  ELSE LET kt == Exponent(t)
           kb == IF t * 256 >= 480 * Pow2(kt) THEN kt - 8 ELSE kt - 9
           rem == ((t % 480) * Pow2Mod(52 - kb, 480)) % 480
           e == IF 2 * rem < 480 THEN rem ELSE rem - 480
       IN IF e = 0 THEN 0
          ELSE IF e < 0 THEN (IF -e <= Pow2(kt - 1 - kb) THEN 0 ELSE 1)
          ELSE IF t = Pow2(kt) THEN (IF e <= Pow2(kt - 2 - kb) THEN 0 ELSE -1)
          ELSE (IF e <= Pow2(kt - 1 - kb) THEN 0 ELSE -1)

\* A double holding a tick count: the tick, and the side of it the double
\* falls on.
ExactTick(t) == [tick |-> t, side |-> 0]

\* TickRoundTrip, tabulated for the ticks of the sequences.
TickRoundTripOf == [t \in 0..MaxTick |-> TickRoundTrip(t)]

\* MainComponent::convertBeatsToTicks, beats * 480.0, of a beat that is
\* convertTicksToBeats of a tick.
convertBeatsToTicks(beat) ==
  LET t == beat \div UnitsPerTick
  IN [tick |-> t,
      side |-> IF t \in DOMAIN TickRoundTripOf THEN TickRoundTripOf[t] ELSE TickRoundTrip(t)]

\* MainComponent::findEventAtTime: the first event with timestamp >= timeStamp.
RECURSIVE findEventAtTime(_, _, _)
findEventAtTime(seq, timeStamp, i) ==
  IF i >= Len(seq) THEN Len(seq)
  ELSE IF \/ seq[i + 1].tick > timeStamp.tick
          \/ (seq[i + 1].tick = timeStamp.tick /\ timeStamp.side <= 0)
       THEN i
  ELSE findEventAtTime(seq, timeStamp, i + 1)

\* findEventIndexForBeat(beat), with findEventAtTime at the tick of the beat
\* and at convertBeatsToTicks(beat).
Fn_FindEventIndexForBeat ==
  /\ FnOnly
  /\ fn.pc = "call" /\ fn.op = "findEventIndexForBeat"
  /\ fn' = [fn EXCEPT !.pc = "done",
                      !.result = [index |-> findEventIndexForBeat(fn.seq, fn.beat),
                                  atTick |-> findEventAtTime(fn.seq, ExactTick(fn.beat \div UnitsPerTick), 0),
                                  atConverted |-> findEventAtTime(fn.seq, convertBeatsToTicks(fn.beat), 0)]]

FnNext ==
  \/ Fn_FindEventIndexForBeat
  \/ Fn_GetCurrentTempo
  \/ Fn_LoopEndSegment
  \/ Fn_ReTriggerSustainedNotesAt
  \/ Fn_PianoRollSetMidiSequence

\* =================================================================
\* SynthAudioSource (src/Source/SynthAudioSource.cpp)
\* =================================================================
\* The channel that is always drums, as an index (MIDI channel 10).
DrumChannel == 9

Channels == 0..15

\* A MIDI message: getChannel() (1..16, 0 for a message without a channel),
\* its first data byte (the note or program number) and its velocity.
SynMsg(kind, chan, number, vel) == [kind |-> kind, chan |-> chan, number |-> number, vel |-> vel]

\* An event of a juce::MidiBuffer: the message and its sample position.
SynEv(msg, pos) == [msg |-> msg, pos |-> pos]

SynMidiChannels == {1, 2, 10}

SynPositions == {0, 2}

\* The messages the blocks are given: note-ons, note-offs and program
\* changes on two melodic channels and on the drum channel, a controller,
\* and a meta event, which has no channel.
SynMessages ==
  { SynMsg("on", c, 64, 100) : c \in SynMidiChannels }
  \cup { SynMsg("off", c, 120, 0) : c \in SynMidiChannels }
  \cup { SynMsg("pc", c, 5, 0) : c \in SynMidiChannels }
  \cup { SynMsg("controller", 1, 7, 100), SynMsg("meta", 0, 81, 0) }

\* juce::MidiBuffer keeps its events ordered by sample position.
SortedByPos(buf) == \A i \in 1..(Len(buf) - 1) : buf[i].pos <= buf[i + 1].pos

SynBuffers ==
  { b \in UNION { [1..n -> { SynEv(m, p) : m \in SynMessages, p \in SynPositions }] : n \in 0..SynMaxEvents } : SortedByPos(b) }

TranspositionInputs == {-70, 12}

\* The constructor: every channel on program 0 but the drum channel, on the
\* drum kit; no channel active.
SynthInit ==
  synth = [pc |-> "idle",
           subsoundIndex |-> [c \in Channels |-> IF c = DrumChannel THEN 228 ELSE 0],
           activeChannels |-> {},
           transpositionAmount |-> 0,
           midiBuffer |-> << >>,
           channelBuffers |-> [c \in Channels |-> << >>],
           rendered |-> {}]
  /\ synVoices = {}

\* setupChannel: the channel's notes are stopped (in its synth) and the
\* subsound index is stored.
setupChannel(s, channel, subsoundIndex) ==
  IF channel >= 0 /\ channel < 16
  THEN [s EXCEPT !.subsoundIndex[channel] = subsoundIndex]
  ELSE s

\* juce::jlimit(0, 127, number + transpositionAmount)
jlimit(lower, upper, value) == IF value < lower THEN lower ELSE IF upper < value THEN upper ELSE value

MutTransposedNoLimit(msg, amount) == [msg EXCEPT !.number = @ + amount]

\* The note-on or note-off rebuilt with the transposed note, the channel and
\* the velocity of the message.
Transposed(msg, amount) ==
  SynMsg(msg.kind, msg.chan, jlimit(0, 127, msg.number + amount), msg.vel)

\* juce::MidiBuffer::addEvent: after the events at or before the position.
addEvent(buf, msg, pos) ==
  LET before == Cardinality({ i \in 1..Len(buf) : buf[i].pos <= pos })
  IN SubSeq(buf, 1, before) \o << SynEv(msg, pos) >> \o SubSeq(buf, before + 1, Len(buf))

MutDispatchProgramOnDrums(s, metadata) ==
  LET channel == metadata.msg.chan - 1
      s1 == IF metadata.msg.kind = "pc" THEN setupChannel(s, channel, metadata.msg.number) ELSE s
  IN IF channel \in Channels
     THEN [s1 EXCEPT !.channelBuffers[channel] = addEvent(@, metadata.msg, metadata.pos),
                     !.activeChannels = @ \cup {channel}]
     ELSE s

MutDispatchToFirstChannel(s, metadata) ==
  IF metadata.msg.chan - 1 \in Channels
  THEN [s EXCEPT !.channelBuffers[0] = addEvent(@, metadata.msg, metadata.pos),
                 !.activeChannels = @ \cup {metadata.msg.chan - 1}]
  ELSE s

MutDispatchUnmarked(s, metadata) ==
  LET channel == metadata.msg.chan - 1
  IN IF channel \in Channels
     THEN [s EXCEPT !.channelBuffers[channel] = addEvent(@, metadata.msg, metadata.pos)]
     ELSE s

\* The body of renderNextBlock's loop over the block's events: a program
\* change sets up its channel unless it is the drum channel, a note message
\* is transposed unless on the drum channel, and the message goes to its
\* channel's buffer and marks the channel active.
DispatchMessage(s, metadata) ==
  LET msg == metadata.msg
      channel == msg.chan - 1
  IN IF channel >= 0 /\ channel < 16
     THEN LET s1 == IF msg.kind = "pc" /\ channel # DrumChannel
                    THEN setupChannel(s, channel, msg.number)
                    ELSE s
              out == IF msg.kind # "pc" /\ msg.kind \in {"on", "off"} /\ channel # DrumChannel
                     THEN Transposed(msg, s.transpositionAmount)
                     ELSE msg
          IN [s1 EXCEPT !.channelBuffers[channel] = addEvent(@, out, metadata.pos),
                        !.activeChannels = @ \cup {channel}]
     ELSE s

RECURSIVE SortByChannel(_, _, _)
SortByChannel(s, midiBuffer, i) ==
  IF i > Len(midiBuffer) THEN s
  ELSE LET dispatched == DispatchMessage(s, midiBuffer[i])
       IN SortByChannel(dispatched, midiBuffer, i + 1)

\* The channels renderNextBlock renders and mixes: the active ones.
RenderedChannels(s) ==
  LET activeChannels == s.activeChannels
  IN { channel \in Channels : channel \in activeChannels }

SynthOnly == UNCHANGED <<mainVars, schedVars, threadVars, fn, procVars, playerVars, mcAudio>>

\* The caller hands renderNextBlock a block's events.
Syn_Call ==
  /\ synth.pc = "idle"
  /\ \E midiBuffer \in SynBuffers :
        synth' = [synth EXCEPT !.pc = "call", !.midiBuffer = midiBuffer]
  /\ UNCHANGED synVoices
  /\ SynthOnly

\* renderNextBlock: the channel buffers start empty, the events are sorted
\* by channel, and each active channel's synth renders its buffer.
Syn_RenderNextBlock ==
  /\ SynthOnly
  /\ synth.pc = "call"
  /\ LET s0 == [synth EXCEPT !.channelBuffers = [c \in Channels |-> << >>]]
         s1 == SortByChannel(s0, synth.midiBuffer, 1)
     IN synth' = [s1 EXCEPT !.pc = "done", !.rendered = RenderedChannels(s1)]
  /\ UNCHANGED synVoices

\* renderNextBlock returns; its channel buffers and the caller's are gone.
Syn_Return ==
  /\ SynthOnly
  /\ synth.pc = "done"
  /\ synth' = [synth EXCEPT !.pc = "idle", !.midiBuffer = << >>,
                            !.channelBuffers = [c \in Channels |-> << >>],
                            !.rendered = {}]
  /\ UNCHANGED synVoices

\* stopAllNotes: every channel's notes are stopped, the markers are reset.
stopAllNotes(s) == [s EXCEPT !.activeChannels = {}]

Syn_StopAllNotes ==
  /\ SynthOnly
  /\ synth.pc = "idle"
  /\ synth' = stopAllNotes(synth)
  /\ synVoices' = {}

\* setTransposition: stores the amount renderNextBlock loads.
Syn_SetTransposition(semitones) ==
  /\ SynthOnly
  /\ synth.pc = "idle"
  /\ synth' = [synth EXCEPT !.transpositionAmount = semitones]
  /\ UNCHANGED synVoices

\* -----------------------------------------------------------------
\* The notes of the channels' synths. SynthNext above follows the routing of
\* the messages and leaves the voices out; SynthVoicesNext below renders
\* blocks of note messages and follows what the channels' synths then have
\* sounding.
\* -----------------------------------------------------------------
\* The blocks of note messages: a note-on and its note-off on a melodic
\* channel and on the drum channel.
SynNoteMessages ==
  { SynMsg("on", 1, 64, 100), SynMsg("off", 1, 64, 0),
    SynMsg("on", 10, 64, 100), SynMsg("off", 10, 64, 0) }

SynNoteBuffers ==
  { b \in UNION { [1..n -> { SynEv(m, p) : m \in SynNoteMessages, p \in SynPositions }] : n \in 0..SynMaxEvents } : SortedByPos(b) }

\* The message renderNextBlock adds to the channel's buffer for a message of
\* the block.
Forwarded(msg, amount) ==
  IF msg.kind \in {"on", "off"} /\ msg.chan - 1 # DrumChannel
  THEN Transposed(msg, amount)
  ELSE msg

\* A sounding note: the channel, the note number the channel's synth was
\* given, the note number of the block's message, and whether a note-off for
\* the block's note has gone by without stopping it.
Voice(channel, number, source, passed) ==
  [chan |-> channel, number |-> number, source |-> source, passed |-> passed]

\* The channel's juce::Synthesiser handling one message of its buffer: a
\* note-on stops the note of that number and starts it again, a note-off
\* stops the note of that number.
VoiceStep(voices, msg, amount) ==
  LET channel == msg.chan - 1
      out == Forwarded(msg, amount)
      others == { v \in voices : ~(v.chan = channel /\ v.number = out.number) }
  IN IF msg.kind = "on"
     THEN others \cup { Voice(channel, out.number, msg.number, FALSE) }
     ELSE IF msg.kind = "off"
     THEN { IF v.chan = channel /\ v.source = msg.number
            THEN [v EXCEPT !.passed = TRUE] ELSE v : v \in others }
     ELSE voices

RECURSIVE RenderVoices(_, _, _, _)
RenderVoices(voices, midiBuffer, amount, i) ==
  IF i > Len(midiBuffer) THEN voices
  ELSE RenderVoices(VoiceStep(voices, midiBuffer[i].msg, amount), midiBuffer, amount, i + 1)

\* The caller hands renderNextBlock a block of note messages.
SynV_Call ==
  /\ synth.pc = "idle"
  /\ \E midiBuffer \in SynNoteBuffers :
        synth' = [synth EXCEPT !.pc = "call", !.midiBuffer = midiBuffer]
  /\ UNCHANGED synVoices
  /\ SynthOnly

\* renderNextBlock, with the channels' synths handling their buffers.
SynV_RenderNextBlock ==
  /\ SynthOnly
  /\ synth.pc = "call"
  /\ LET s0 == [synth EXCEPT !.channelBuffers = [c \in Channels |-> << >>]]
         s1 == SortByChannel(s0, synth.midiBuffer, 1)
     IN synth' = [s1 EXCEPT !.pc = "done", !.rendered = RenderedChannels(s1)]
  /\ synVoices' = RenderVoices(synVoices, synth.midiBuffer, synth.transpositionAmount, 1)

SynthVoicesNext ==
  \/ SynV_Call
  \/ SynV_RenderNextBlock
  \/ Syn_Return
  \/ Syn_StopAllNotes
  \/ \E semitones \in TranspositionInputs : Syn_SetTransposition(semitones)

SynthNext ==
  \/ Syn_Call
  \/ Syn_RenderNextBlock
  \/ Syn_Return
  \/ Syn_StopAllNotes
  \/ \E semitones \in TranspositionInputs : Syn_SetTransposition(semitones)

\* =================================================================
\* MidiProcessorThread (src/Source/MidiProcessorThread.h)
\* =================================================================
\* The time between two blocks, in beats at the tempo of the block: the
\* thread sleeps at least a millisecond, the scheduler decides the rest.
DeltaInputs == { convertTicksToBeats(240), convertTicksToBeats(720) }

ProcFiles == { SeqMix }

ProcLoopInputs == { <<0, 960, 2>>, <<960, 1920, 1>> }

ProcTempoInputs == { 60 }

ProcInit ==
  /\ proc = [midiSequence |-> SeqEmpty,
             originalLoopCount |-> 0,
             currentEvent |-> 0,
             playbackPosition |-> 0,
             tempo |-> 120,
             loopStartBeat |-> 0,
             loopEndBeat |-> 0,
             loopCount |-> 0,
             currentLoopIteration |-> 0,
             voices |-> {}]
  /\ procLock = "free"
  /\ procThread = [pc |-> "stopped", running |-> FALSE, shouldExit |-> FALSE,
                   newPosition |-> 0, branch |-> "none", ret |-> TRUE, killed |-> FALSE]
  /\ procControl = [pc |-> "idle", op |-> "none", args |-> << >>, result |-> 0,
                    lastCount |-> 0]
  /\ procCommitted = proc

ProcOnly == UNCHANGED <<mainVars, schedVars, threadVars, fn, synthVars, playerVars, mcAudio>>

\* resetLoopState
resetLoopState(p) ==
  [p EXCEPT !.currentLoopIteration = 0, !.loopCount = p.originalLoopCount]

\* scanAndTriggerActiveNotes: the notes it calls audioEngine.noteOn for.
scanAndTriggerActiveNotes(seq, currentEvent, position) ==
  { <<seq[i + 1].chan, seq[i + 1].note>> :
      i \in { j \in 0..(currentEvent - 1) :
                /\ seq[j + 1].kind = "on"
                /\ noteOffObject(seq, j) # -1
                /\ convertTicksToBeats(seq[j + 1].tick) <= position
                /\ convertTicksToBeats(seq[noteOffObject(seq, j) + 1].tick) > position } }

\* processNextBlock's loop over the events up to newPosition: the event
\* cursor and the engine's notes after it.
RECURSIVE ProcessEvents(_, _, _, _)
ProcessEvents(seq, currentEvent, newPosition, voices) ==
  IF currentEvent < Len(seq) /\ convertTicksToBeats(seq[currentEvent + 1].tick) <= newPosition
  THEN LET e == seq[currentEvent + 1]
           v == IF e.kind = "on" THEN voices \cup {<<e.chan, e.note>>}
                ELSE IF e.kind = "off" THEN voices \ {<<e.chan, e.note>>}
                ELSE voices
       IN ProcessEvents(seq, currentEvent + 1, newPosition, v)
  ELSE [currentEvent |-> currentEvent, voices |-> voices]

\* processNextBlock: the latest event's beat, 0 at least.
RECURSIVE LastEventTime(_, _)
LastEventTime(seq, i) ==
  IF i >= Len(seq) THEN 0
  ELSE LET rest == LastEventTime(seq, i + 1)
           t == convertTicksToBeats(seq[i + 1].tick)
       IN IF t > rest THEN t ELSE rest

MutAcquireHeld(who) == TRUE

\* juce::ScopedLock on a juce::CriticalSection: entered when no other thread
\* is inside.
Acquire(who) == procLock = "free"

\* run: the loop test, and the thread's end.
Thr_Exit ==
  /\ ProcOnly
  /\ procThread.pc = "run" /\ procThread.shouldExit
  /\ procThread' = [procThread EXCEPT !.pc = "stopped", !.running = FALSE]
  /\ UNCHANGED <<proc, procLock, procControl, procCommitted>>

\* run: "while (!threadShouldExit())", and the call of processNextBlock.
Thr_Test ==
  /\ ProcOnly
  /\ procThread.pc = "run" /\ ~procThread.shouldExit
  /\ procThread' = [procThread EXCEPT !.pc = "lock"]
  /\ UNCHANGED <<proc, procLock, procControl, procCommitted>>

\* processNextBlock takes the lock.
Thr_Lock ==
  /\ ProcOnly
  /\ procThread.pc = "lock"
  /\ Acquire("thread")
  /\ procLock' = "thread"
  /\ procThread' = [procThread EXCEPT !.pc = "begin"]
  /\ UNCHANGED <<proc, procControl, procCommitted>>

\* A position past tick MaxTick is past every event, every loop region and
\* the end of every sequence used here: all such positions are kept as one.
ProcAdvance(position, deltaBeats) ==
  IF position + deltaBeats > convertTicksToBeats(MaxTick)
  THEN convertTicksToBeats(MaxTick)
  ELSE position + deltaBeats

\* processNextBlock: the empty sequence, or the new position.
Thr_Begin(deltaBeats) ==
  /\ ProcOnly
  /\ procThread.pc = "begin"
  /\ procThread' = IF Len(proc.midiSequence) = 0
                   THEN [procThread EXCEPT !.pc = "unlock", !.ret = FALSE]
                   ELSE [procThread EXCEPT !.pc = "looping",
                                           !.newPosition =
                                              ProcAdvance(proc.playbackPosition, deltaBeats)]
  /\ UNCHANGED <<proc, procLock, procControl, procCommitted>>

\* processNextBlock, "Handle looping": the notes are turned off, the new
\* position is the loop's start (its end on the final iteration) and the
\* event cursor is moved there.
Thr_Looping ==
  /\ ProcOnly
  /\ procThread.pc = "looping"
  /\ IF proc.loopCount > 0 /\ procThread.newPosition >= proc.loopEndBeat
     THEN IF proc.currentLoopIteration < proc.loopCount - 1
          THEN /\ proc' = [proc EXCEPT
                             !.voices = {},
                             !.currentEvent =
                                findEventAtTime(proc.midiSequence,
                                                convertBeatsToTicks(proc.loopStartBeat), 0)]
               /\ procThread' = [procThread EXCEPT !.pc = "iteration", !.branch = "wrap",
                                                   !.newPosition = proc.loopStartBeat]
          ELSE LET found == findEventAtTime(proc.midiSequence,
                                            convertBeatsToTicks(proc.loopEndBeat), 0)
               IN /\ proc' = [proc EXCEPT
                                !.voices = {},
                                !.currentEvent = IF found > 0 THEN found - 1 ELSE found]
                  /\ procThread' = [procThread EXCEPT !.pc = "iteration", !.branch = "exit",
                                                      !.newPosition = proc.loopEndBeat]
     ELSE /\ procThread' = [procThread EXCEPT !.pc = "endCheck", !.branch = "none"]
          /\ UNCHANGED proc
  /\ UNCHANGED <<procLock, procControl, procCommitted>>

MutKeepLooping(p) == p

\* processNextBlock, "Disable looping": loopCount = 0.
DisableLooping(p) == [p EXCEPT !.loopCount = 0]

\* processNextBlock, "Handle looping", the rest: the iteration is counted
\* (looping is disabled on the final one) and the notes sounding at the new
\* position are triggered.
Thr_Iteration ==
  /\ ProcOnly
  /\ procThread.pc = "iteration"
  /\ LET notes == scanAndTriggerActiveNotes(proc.midiSequence, proc.currentEvent,
                                            procThread.newPosition)
     IN proc' = IF procThread.branch = "wrap"
                THEN [proc EXCEPT !.currentLoopIteration = @ + 1, !.voices = @ \cup notes]
                ELSE DisableLooping([proc EXCEPT !.voices = @ \cup notes])
  /\ procThread' = [procThread EXCEPT !.pc = "endCheck"]
  /\ UNCHANGED <<procLock, procControl, procCommitted>>

\* processNextBlock: the end of the sequence, when not looping.
Thr_EndCheck ==
  /\ ProcOnly
  /\ procThread.pc = "endCheck"
  /\ IF /\ proc.loopCount = 0
        /\ procThread.newPosition >= LastEventTime(proc.midiSequence, 0) + BeatUnits
     THEN /\ proc' = [proc EXCEPT !.voices = {}]
          /\ procThread' = [procThread EXCEPT !.pc = "unlock", !.ret = FALSE]
     ELSE /\ procThread' = [procThread EXCEPT !.pc = "events"]
          /\ UNCHANGED proc
  /\ UNCHANGED <<procLock, procControl, procCommitted>>

\* processNextBlock, "Process MIDI events".
Thr_Events ==
  /\ ProcOnly
  /\ procThread.pc = "events"
  /\ LET done == ProcessEvents(proc.midiSequence, proc.currentEvent,
                               procThread.newPosition, proc.voices)
     IN proc' = [proc EXCEPT !.currentEvent = done.currentEvent, !.voices = done.voices]
  /\ procThread' = [procThread EXCEPT !.pc = "store"]
  /\ UNCHANGED <<procLock, procControl, procCommitted>>

\* processNextBlock: playbackPosition = newPosition.
Thr_Store ==
  /\ ProcOnly
  /\ procThread.pc = "store"
  /\ proc' = [proc EXCEPT !.playbackPosition = procThread.newPosition]
  /\ procThread' = [procThread EXCEPT !.pc = "unlock", !.ret = TRUE]
  /\ UNCHANGED <<procLock, procControl, procCommitted>>

\* processNextBlock returns: the lock is released; run signals the exit when
\* it returned false, and sleeps.
Thr_Unlock ==
  /\ ProcOnly
  /\ procThread.pc = "unlock"
  /\ procLock' = IF procLock = "thread" THEN "free" ELSE procLock
  /\ procCommitted' = proc
  /\ procThread' = [procThread EXCEPT !.pc = "run", !.branch = "none", !.newPosition = 0,
                                      !.ret = TRUE,
                                      !.shouldExit = @ \/ ~procThread.ret]
  /\ UNCHANGED <<proc, procControl>>

\* A control operation takes the lock: setTempo, setLoopRegion,
\* startPlayback, getPlaybackPosition and setMidiSequence, which calls
\* stopPlayback next.
Ctl_ProcLock(op, args) ==
  /\ ProcOnly
  /\ procControl.pc = "idle"
  /\ Acquire("control")
  /\ procLock' = "control"
  /\ procControl' = [procControl EXCEPT !.pc = IF op = "setMidiSequence" THEN "signal" ELSE "body",
                                        !.op = op, !.args = args]
  /\ UNCHANGED <<proc, procThread, procCommitted>>

\* stopPlayback called by the owner: it begins without the lock.
Ctl_ProcStopPlayback ==
  /\ ProcOnly
  /\ procControl.pc = "idle"
  /\ procControl' = [procControl EXCEPT !.pc = "signal", !.op = "stopPlayback", !.args = << >>]
  /\ UNCHANGED <<proc, procLock, procThread, procCommitted>>

\* stopPlayback: signalThreadShouldExit.
Ctl_StopSignal ==
  /\ ProcOnly
  /\ procControl.pc = "signal"
  /\ procThread' = [procThread EXCEPT !.shouldExit = TRUE]
  /\ procControl' = [procControl EXCEPT !.pc = "wait"]
  /\ UNCHANGED <<proc, procLock, procCommitted>>

\* stopPlayback: stopThread returns once the thread has ended, and the lock
\* is taken (a second time, by the same thread, inside setMidiSequence).
Ctl_StopWait ==
  /\ ProcOnly
  /\ procControl.pc = "wait"
  /\ ~procThread.running
  /\ procLock = "control" \/ Acquire("control")
  /\ procLock' = "control"
  /\ procControl' = [procControl EXCEPT !.pc = "body"]
  /\ UNCHANGED <<proc, procThread, procCommitted>>

\* stopPlayback: stopThread(2000) runs out while the thread waits for the
\* lock its caller holds.  The thread is ended by force, where the library
\* does that; where it does not, stopThread(-1) waits for ever and this step
\* is never taken.
Ctl_StopTimeout ==
  /\ ProcOnly
  /\ procControl.pc = "wait"
  /\ procThread.running /\ procThread.pc = "lock" /\ procLock = "control"
  /\ procThread' = [procThread EXCEPT !.pc = "stopped", !.running = FALSE, !.killed = TRUE]
  /\ UNCHANGED <<proc, procLock, procControl, procCommitted>>

\* stopPlayback, the fields it resets.
stopPlaybackFields(p) ==
  [resetLoopState([p EXCEPT !.voices = {}]) EXCEPT !.currentEvent = 0, !.playbackPosition = 0]

\* The body of the control operation, inside the lock.
Ctl_ProcBody ==
  /\ ProcOnly
  /\ procControl.pc = "body"
  /\ LET a == procControl.args
     IN CASE procControl.op = "setTempo" ->
               /\ proc' = [proc EXCEPT !.tempo = a[1]]
               /\ UNCHANGED procThread
               /\ procControl' = [procControl EXCEPT !.pc = "unlock"]
          [] procControl.op = "setLoopRegion" ->
               /\ LET set == [proc EXCEPT !.loopStartBeat = a[1],
                                          !.loopEndBeat = a[2],
                                          !.loopCount = a[3],
                                          !.originalLoopCount = a[3],
                                          !.currentLoopIteration = 0]
                  IN proc' = IF procThread.running /\ proc.playbackPosition >= a[2]
                             THEN [set EXCEPT
                                     !.playbackPosition = a[1],
                                     !.currentEvent =
                                        findEventAtTime(proc.midiSequence,
                                                        convertBeatsToTicks(a[1]), 0)]
                             ELSE set
               /\ UNCHANGED procThread
               /\ procControl' = [procControl EXCEPT !.pc = "unlock", !.lastCount = a[3]]
          [] procControl.op = "startPlayback" ->
               /\ IF ~procThread.running
                  THEN /\ proc' = [resetLoopState(proc) EXCEPT !.playbackPosition = 0,
                                                                !.currentEvent = 0,
                                                                !.voices = {}]
                       /\ procThread' = [procThread EXCEPT !.pc = "run", !.running = TRUE,
                                                           !.shouldExit = FALSE,
                                                           !.killed = FALSE]
                  ELSE UNCHANGED <<proc, procThread>>
               /\ procControl' = [procControl EXCEPT !.pc = "unlock"]
          [] procControl.op = "getPlaybackPosition" ->
               /\ UNCHANGED <<proc, procThread>>
               /\ procControl' = [procControl EXCEPT !.pc = "unlock",
                                                     !.result = proc.playbackPosition]
          [] procControl.op = "stopPlayback" ->
               /\ proc' = stopPlaybackFields(proc)
               /\ UNCHANGED procThread
               /\ procControl' = [procControl EXCEPT !.pc = "unlock"]
          [] procControl.op = "setMidiSequence" ->
               /\ proc' = resetLoopState([stopPlaybackFields(proc) EXCEPT
                                            !.midiSequence = a[1], !.currentEvent = 0])
               /\ UNCHANGED procThread
               /\ procControl' = [procControl EXCEPT !.pc = "unlock"]
  /\ UNCHANGED <<procLock, procCommitted>>

\* The control operation returns: the lock is released.
Ctl_ProcUnlock ==
  /\ ProcOnly
  /\ procControl.pc = "unlock"
  /\ procLock' = IF procLock = "control" THEN "free" ELSE procLock
  /\ procCommitted' = proc
  /\ procControl' = [procControl EXCEPT !.pc = "idle"]
  /\ UNCHANGED <<proc, procThread>>

\* The loop regions given when the worker is left to itself: the last has
\* a negative count.
ProcRunLoopInputs == { <<0, 960, 2>>, <<1920, 960, 3>>, <<960, 1920, -1>> }

\* The steps of the worker thread.
ProcThreadNext ==
  \/ Thr_Exit
  \/ Thr_Test
  \/ Thr_Lock
  \/ \E deltaBeats \in DeltaInputs : Thr_Begin(deltaBeats)
  \/ Thr_Looping
  \/ Thr_Iteration
  \/ Thr_EndCheck
  \/ Thr_Events
  \/ Thr_Store
  \/ Thr_Unlock

\* The rest of an operation the owner has begun.
ProcControlRest ==
  \/ Ctl_StopSignal
  \/ Ctl_StopWait
  \/ Ctl_ProcBody
  \/ Ctl_ProcUnlock

\* The worker and an owner that gives no command while the worker runs.
ProcRunNext ==
  \/ ProcThreadNext
  \/ ProcControlRest
  \/ /\ ~procThread.running
     /\ \/ \E seq \in ProcFiles : Ctl_ProcLock("setMidiSequence", << seq >>)
        \/ \E t \in ProcTempoInputs : Ctl_ProcLock("setTempo", << t >>)
        \/ \E r \in ProcRunLoopInputs :
             Ctl_ProcLock("setLoopRegion",
                          << convertTicksToBeats(r[1]), convertTicksToBeats(r[2]), r[3] >>)
        \/ Ctl_ProcLock("startPlayback", << >>)

ProcNext ==
  \/ Thr_Exit
  \/ Thr_Test
  \/ Thr_Lock
  \/ \E deltaBeats \in DeltaInputs : Thr_Begin(deltaBeats)
  \/ Thr_Looping
  \/ Thr_Iteration
  \/ Thr_EndCheck
  \/ Thr_Events
  \/ Thr_Store
  \/ Thr_Unlock
  \/ \E t \in ProcTempoInputs : Ctl_ProcLock("setTempo", << t >>)
  \/ \E r \in ProcLoopInputs :
       Ctl_ProcLock("setLoopRegion",
                    << convertTicksToBeats(r[1]), convertTicksToBeats(r[2]), r[3] >>)
  \/ Ctl_ProcLock("startPlayback", << >>)
  \/ Ctl_ProcLock("getPlaybackPosition", << >>)
  \/ \E seq \in ProcFiles : Ctl_ProcLock("setMidiSequence", << seq >>)
  \/ Ctl_ProcStopPlayback
  \/ Ctl_StopSignal
  \/ Ctl_StopWait
  \/ Ctl_StopTimeout
  \/ Ctl_ProcBody
  \/ Ctl_ProcUnlock

\* =================================================================
\* MidiPlayer (src/Source/MidiPlayer.cpp)
\* =================================================================
PlayerFiles == { SeqLong, SeqMix }

\* The loop regions of the caller, <<start tick, end tick, count>>; the last
\* is no region.
PlayerLoopInputs == { <<960, 2880, 3>>, <<0, 960, 2>>, <<960, 1920, 1>>, <<0, 0, 0>> }

\* The time between two updates, in beats at the tempo of the update.
PlayerDeltaInputs == { convertTicksToBeats(240), convertTicksToBeats(720) }

PlayerPositionInputs == { 0, convertTicksToBeats(970) }

\* PlaybackState()
PlaybackState == [isPlaying |-> FALSE, position |-> 0, currentEvent |-> 0, currentLoopIteration |-> 0]

PlayerCalls(op, delta, calls) == [op |-> op, delta |-> delta, calls |-> calls]

PlayerInit ==
  /\ player = [midiSequence |-> SeqEmpty,
               state |-> PlaybackState,
               isLooping |-> FALSE,
               loopStartBeat |-> 0,
               loopEndBeat |-> 0,
               loopCount |-> 0]
  /\ playerOut = PlayerCalls("init", 0, << >>)

PlayerOnly == UNCHANGED <<mainVars, schedVars, threadVars, fn, synthVars, procVars, mcAudio>>

\* The caller's isInLoop: MainComponent::isPositionInLoop.
isInLoop(p, beat) == p.isLooping /\ beat >= p.loopStartBeat /\ beat < p.loopEndBeat

\* loadMidiFile: the chooser's callback, for a file that was read.
Ply_LoadMidiFile(seq) ==
  /\ PlayerOnly
  /\ player' = [player EXCEPT !.midiSequence = seq, !.state = PlaybackState]
  /\ playerOut' = PlayerCalls("load", 0, << >>)

Ply_Play ==
  /\ PlayerOnly
  /\ player' = IF player.state.currentEvent < Len(player.midiSequence)
               THEN [player EXCEPT !.state.isPlaying = TRUE]
               ELSE player
  /\ playerOut' = PlayerCalls("play", 0, << >>)

\* stop: the fields it leaves.
stop(p) ==
  [p EXCEPT !.state.isPlaying = FALSE,
            !.state.currentEvent = 0,
            !.state.position = 0,
            !.state.currentLoopIteration = 0]

Ply_Stop ==
  /\ PlayerOnly
  /\ player' = stop(player)
  /\ playerOut' = PlayerCalls("stop", 0, << [call |-> "onAllNotesOff"] >>)

\* setPosition: the cursor goes to the first event at or after the beat.
RECURSIVE FirstEventAtBeat(_, _, _)
FirstEventAtBeat(seq, beatPosition, currentEvent) ==
  IF currentEvent < Len(seq) /\ ~(convertTicksToBeats(seq[currentEvent + 1].tick) >= beatPosition)
  THEN FirstEventAtBeat(seq, beatPosition, currentEvent + 1)
  ELSE currentEvent

Ply_SetPosition(beatPosition) ==
  /\ PlayerOnly
  /\ player' = [player EXCEPT
                  !.state.position = beatPosition,
                  !.state.currentEvent = FirstEventAtBeat(player.midiSequence, beatPosition, 0)]
  /\ playerOut' = PlayerCalls("setPosition", 0, << >>)

\* The caller sets or clears its loop region.
Ply_SetLoopRegion(startBeat, endBeat, loops) ==
  /\ PlayerOnly
  /\ player' = [player EXCEPT !.loopStartBeat = startBeat,
                              !.loopEndBeat = endBeat,
                              !.loopCount = loops,
                              !.isLooping = (loops > 0)]
  /\ playerOut' = PlayerCalls("setLoopRegion", 0, << >>)

\* processEventsUpToPosition: the cursor after it and the noteOn and noteOff
\* calls it makes.
RECURSIVE processEventsUpToPosition(_, _, _)
processEventsUpToPosition(seq, currentEvent, position) ==
  IF currentEvent < Len(seq) /\ convertTicksToBeats(seq[currentEvent + 1].tick) <= position
  THEN LET e == seq[currentEvent + 1]
           rest == processEventsUpToPosition(seq, currentEvent + 1, position)
           call == IF e.kind = "on"
                   THEN << [call |-> "noteOn", idx |-> currentEvent, by |-> "events"] >>
                   ELSE IF e.kind = "off"
                   THEN << [call |-> "noteOff", idx |-> currentEvent, by |-> "events"] >>
                   ELSE << >>
       IN [currentEvent |-> rest.currentEvent, calls |-> call \o rest.calls]
  ELSE [currentEvent |-> currentEvent, calls |-> << >>]

\* update, the scan at the loop start: the noteOn calls for the notes that
\* sound at newPosition, among the events before the cursor, in order.
RECURSIVE PlayerScan(_, _, _, _)
PlayerScan(seq, currentEvent, newPosition, i) ==
  IF i >= currentEvent THEN << >>
  ELSE LET off == noteOffObject(seq, i)
           hit == /\ seq[i + 1].kind = "on"
                  /\ off # -1
                  /\ convertTicksToBeats(seq[i + 1].tick) <= newPosition
                  /\ convertTicksToBeats(seq[off + 1].tick) > newPosition
       IN (IF hit THEN << [call |-> "noteOn", idx |-> i, by |-> "scan"] >> ELSE << >>)
          \o PlayerScan(seq, currentEvent, newPosition, i + 1)

MutJumpOnFinalIteration(p) == p.state.currentLoopIteration < p.loopCount

\* update: "(state.currentLoopIteration + 1) < getLoopCount()"
MoreIterations(p) == (p.state.currentLoopIteration + 1) < p.loopCount

\* update, of a player that is playing, deltaBeats after the last one.
Ply_Update(deltaBeats) ==
  /\ PlayerOnly
  /\ player.state.isPlaying
  /\ LET seq == player.midiSequence
         advanced == player.state.position + deltaBeats
         jump == /\ isInLoop(player, player.state.position)
                 /\ MoreIterations(player)
                 /\ advanced >= player.loopEndBeat
         newPosition == IF jump THEN player.loopStartBeat ELSE advanced
         found == findEventAtTime(seq, convertBeatsToTicks(newPosition), 0)
         cursor == IF jump THEN (IF found > 0 THEN found - 1 ELSE found)
                   ELSE player.state.currentEvent
         looped == IF jump
                   THEN << [call |-> "allNotesOff"] >> \o PlayerScan(seq, cursor, newPosition, 0)
                   ELSE << >>
         done == processEventsUpToPosition(seq, cursor, newPosition)
     IN IF /\ ~isInLoop(player, player.state.position)
           /\ advanced >= LastEventTime(seq, 0) + BeatUnits
        THEN /\ player' = stop(player)
             /\ playerOut' = PlayerCalls("update", deltaBeats,
                                         << [call |-> "onAllNotesOff"], [call |-> "onAllNotesOff"] >>)
        ELSE /\ player' = [player EXCEPT
                             !.state.position = newPosition,
                             !.state.currentEvent = done.currentEvent,
                             !.state.currentLoopIteration = IF jump THEN @ + 1 ELSE @]
             /\ playerOut' = PlayerCalls("update", deltaBeats, looped \o done.calls)

PlayerNext ==
  \/ \E seq \in PlayerFiles : Ply_LoadMidiFile(seq)
  \/ Ply_Play
  \/ Ply_Stop
  \/ \E beatPosition \in PlayerPositionInputs : Ply_SetPosition(beatPosition)
  \/ \E r \in PlayerLoopInputs :
       Ply_SetLoopRegion(convertTicksToBeats(r[1]), convertTicksToBeats(r[2]), r[3])
  \/ \E deltaBeats \in PlayerDeltaInputs : Ply_Update(deltaBeats)

\* =================================================================
\* MainComponent, the audio thread and the message thread
\* (src/Source/MainComponent.cpp; the component has no lock)
\* =================================================================
\* getNextAudioBlock is on the audio thread; loadMidiFile's callback,
\* playMidiFile, stopMidiFile, setupLoopRegion and clearLoopRegion are on the
\* message thread and may run while a block is in progress. A block is two
\* steps: the reads and tests up to its first processSegment, then the
\* rendering and the stores that follow it.
NoBlock == [pc |-> "idle", branch |-> "none", currentBeat |-> 0, currentTempo |-> 0, loopEndBeat |-> 0]

MainAudioInit == mcAudio = NoBlock

MainAudioOnly == UNCHANGED <<schedVars, threadVars, fn, synthVars, procVars, playerVars>>

\* getNextAudioBlock up to its first processSegment: the entry check, the
\* isPlaying test, the locals and the choice of the branch.
MCA_Begin ==
  /\ MainAudioOnly
  /\ mcAudio.pc = "idle"
  /\ LET c == EntryCheck(mc)
         blockBeats == BlockBeats(NumSamples, c.tempo)
         currentBeat == c.playbackPosition
         branch == IF ~c.isLooping /\ (currentBeat + blockBeats) >= FileEndBeat(c.midiSequence)
                   THEN "eof"
                   ELSE IF c.isLooping /\ (currentBeat + blockBeats) >= c.loopEndBeat
                   THEN "loop"
                   ELSE "block"
     IN /\ mc' = c
        /\ IF ~c.isPlaying
           THEN /\ mcAudio' = NoBlock
                /\ mcOut' = NoOut("idle")
           ELSE /\ mcAudio' = [pc |-> "mid", branch |-> branch, currentBeat |-> currentBeat,
                               currentTempo |-> c.tempo, loopEndBeat |-> c.loopEndBeat]
                /\ mcOut' = NoOut("begin")
  /\ UNCHANGED <<mcVoices, mcRun, mcAsync>>

\* The rest of the end-of-file branch.
MCA_FinishEndOfFile ==
  LET seq == mc.midiSequence
      fileEndBeat == FileEndBeat(seq)
      samplesToEnd == Min(NumSamples, BeatsToSamples(fileEndBeat - mcAudio.currentBeat, mcAudio.currentTempo))
      seg == processSegment(seq, 0, samplesToEnd, mcAudio.currentBeat, fileEndBeat, mcAudio.currentTempo)
  IN /\ mc' = [mc EXCEPT !.playbackPosition = fileEndBeat, !.isPlaying = FALSE]
     /\ mcVoices' = {}
     /\ mcOut' = Out("eof", << seg >>, << >>, TRUE)
     /\ mcAsync' = mcAsync + 1

\* The rest of the branch of a block that reaches loopEndBeat: the fields
\* are read again after the first segment.
MCA_FinishLoopEnd ==
  LET seq == mc.midiSequence
      tempo == mcAudio.currentTempo
      samplesToLoopEnd ==
        Min(NumSamples, BeatsToSamples(mcAudio.loopEndBeat - mcAudio.currentBeat, tempo))
      seg1 == processSegment(seq, 0, samplesToLoopEnd, mcAudio.currentBeat, mcAudio.loopEndBeat, tempo)
      v1 == ApplyEvents(mcVoices, seq, seg1.buf, 1)
      remainingSamples == NumSamples - samplesToLoopEnd
  IN IF IterationsLeft(mc)
     THEN LET idxs == reTriggerSustainedNotesAt(seq, mc.loopStartBeat)
              newSegmentEndBeat == mc.loopStartBeat + BlockBeats(remainingSamples, tempo)
              seg2 == processSegment(seq, samplesToLoopEnd, remainingSamples,
                                     mc.loopStartBeat, newSegmentEndBeat, tempo)
          IN /\ mc' = [mc EXCEPT !.playbackPosition = newSegmentEndBeat,
                                 !.currentLoopIteration = @ + 1]
             /\ mcVoices' = ApplyEvents(NoteOnAll({}, seq, idxs), seq, seg2.buf, 1)
             /\ mcOut' = Out("wrap", << seg1, seg2 >>,
                             RetrigLog("wrap", mc.loopStartBeat, idxs), TRUE)
             /\ UNCHANGED mcAsync
     ELSE LET idxs == reTriggerSustainedNotesAt(seq, mc.loopEndBeat)
              extraBeats == BlockBeats(remainingSamples, tempo)
              seg2 == processSegment(seq, samplesToLoopEnd, remainingSamples,
                                     mc.loopEndBeat, mc.loopEndBeat + extraBeats, tempo)
          IN /\ mc' = [mc EXCEPT !.playbackPosition = mc.loopEndBeat + extraBeats,
                                 !.isLooping = FALSE,
                                 !.currentLoopIteration = 0]
             /\ mcVoices' = ApplyEvents(NoteOnAll(v1, seq, idxs), seq, seg2.buf, 1)
             /\ mcOut' = Out("exit", << seg1, seg2 >>,
                             RetrigLog("exit", mc.loopEndBeat, idxs), FALSE)
             /\ UNCHANGED mcAsync

\* The rest of the default branch.
MCA_FinishDefault ==
  LET seq == mc.midiSequence
      blockBeats == BlockBeats(NumSamples, mcAudio.currentTempo)
      seg == processSegment(seq, 0, NumSamples, mcAudio.currentBeat,
                            mcAudio.currentBeat + blockBeats, mcAudio.currentTempo)
  IN /\ mc' = [mc EXCEPT !.playbackPosition = mcAudio.currentBeat + blockBeats]
     /\ mcVoices' = ApplyEvents(mcVoices, seq, seg.buf, 1)
     /\ mcOut' = Out("block", << seg >>, << >>, FALSE)
     /\ UNCHANGED mcAsync

\* getNextAudioBlock from its first processSegment to its return.
MCA_Finish ==
  /\ MainAudioOnly
  /\ mcAudio.pc = "mid"
  /\ mcAudio' = NoBlock
  /\ UNCHANGED mcRun
  /\ IF mcAudio.branch = "eof" THEN MCA_FinishEndOfFile
     ELSE IF mcAudio.branch = "loop" THEN MCA_FinishLoopEnd
     ELSE MCA_FinishDefault

MainThreadsNext ==
  \/ \E k \in 1..Len(MidiFiles) : MC_LoadMidiFile(k)
  \/ MC_PlayMidiFile
  \/ MC_StopMidiFile
  \/ \E r \in LoopInputs :
       MC_SetupLoopRegion(convertTicksToBeats(r[1]), convertTicksToBeats(r[2]), r[3])
  \/ MC_ClearLoopRegion
  \/ MC_AsyncButtons
  \/ MCA_Begin
  \/ MCA_Finish

\* =================================================================
\* Specifications: each component runs on its own, the others at rest
\* =================================================================
MainAtRest == MainInitWith(<<0, 960, 0>>, FALSE)

MainSpecInit == MainInit /\ SchedInit /\ ThreadsAtRest /\ FnAtRest /\ SynthInit /\ ProcInit /\ PlayerInit /\ MainAudioInit

\* MainComponent under every interleaving of its handlers and audio blocks.
SpecMain == MainSpecInit /\ [][MainNext]_vars

SchedSpecInit == SchedInit /\ MainAtRest /\ ThreadsAtRest /\ FnAtRest /\ SynthInit /\ ProcInit /\ PlayerInit /\ MainAudioInit

\* MidiSchedulerAudioSource under every interleaving of its control calls and
\* audio blocks, each call atomic.
SpecSched == SchedSpecInit /\ [][SchedNext]_vars

\* MidiSchedulerAudioSource with the audio thread inside getNextAudioBlock
\* while the control thread is inside setLoopRegion.
SpecSchedThreads == SchedSpecInit /\ [][ThreadsNext]_vars

FnSpecInit == fn \in FnInputs /\ MainAtRest /\ SchedInit /\ ThreadsAtRest /\ SynthInit /\ ProcInit /\ PlayerInit /\ MainAudioInit

\* Single calls of getCurrentTempo, of the loop-end segment, of
\* reTriggerSustainedNotesAt and of the piano roll's setMidiSequence, each on
\* every input drawn.
SpecFunctions == FnSpecInit /\ [][FnNext]_vars

\* SynthAudioSource under every interleaving of its blocks with
\* setTransposition and stopAllNotes.
SpecSynth == SchedSpecInit /\ [][SynthNext]_vars

\* The audio device calls getNextAudioBlock again and again.
SpecMainRun == MainSpecInit /\ [][MainRunNext]_vars /\ WF_vars(MC_GetNextAudioBlock)

SpecMainThreads == MainSpecInit /\ [][MainThreadsNext]_vars

SpecSynthVoices == SchedSpecInit /\ [][SynthVoicesNext]_vars

\* MidiProcessorThread: its thread, one step of processNextBlock at a time,
\* against the control thread's operations.
SpecProc == SchedSpecInit /\ [][ProcNext]_vars

\* MidiProcessorThread left to itself: the owner acts only while the worker
\* is not running.  An operation that has begun runs to its end, and the
\* worker is scheduled again and again.
SpecProcRun ==
  /\ SchedSpecInit
  /\ [][ProcRunNext]_vars
  /\ WF_vars(ProcThreadNext)
  /\ WF_vars(ProcControlRest)

\* MidiPlayer under every interleaving of its operations and updates.
SpecPlayer == SchedSpecInit /\ [][PlayerNext]_vars

\* =================================================================
\* Claims about MainComponent
\* =================================================================
\* The note-on events of seq that have a matched note-off, begin no later
\* than 0.05 beat after the boundary and end after it.
SustainedAcross(seq, boundaryBeat) ==
  { i \in 0..(Len(seq) - 1) :
      /\ seq[i + 1].kind = "on"
      /\ \E j \in (i + 1)..(Len(seq) - 1) :
           /\ noteOffObject(seq, i) = j
           /\ 20 * (convertTicksToBeats(seq[i + 1].tick) - boundaryBeat) <= BeatUnits
           /\ convertTicksToBeats(seq[j + 1].tick) > boundaryBeat }

RetrigIdxs(log) == { log[k].idx : k \in 1..Len(log) }

\* C1: in a run started by playMidiFile with a valid loop region longer than
\* one audio block and no control command since, the position jumps from
\* loopEndBeat back to loopStartBeat exactly loopCount - 1 times, each jump
\* incrementing currentLoopIteration, and only then looping is turned off:
\* the loop body is traversed loopCount times.
C1_LoopTraversal ==
  mcRun.clean =>
    /\ mcRun.resets = 0
    /\ mc.isLooping =>
         /\ mcRun.exits = 0
         /\ mc.currentLoopIteration = mcRun.jumps
         /\ mcRun.jumps <= mc.loopCount - 1
    /\ ~mc.isLooping =>
         /\ mcRun.exits = 1
         /\ mcRun.jumps = mc.loopCount - 1
    /\ mcOut.op = "wrap" =>
         /\ mcOut.segs[1].endBeat = mc.loopEndBeat
         /\ mcOut.segs[2].startBeat = mc.loopStartBeat
         /\ mcOut.segs[2].endBeat = mc.playbackPosition
         /\ mc.playbackPosition < mc.loopEndBeat

\* C1 witness: a region of three iterations has been left after two jumps.
C1_Witness ==
  /\ mcRun.clean
  /\ ~mc.isLooping
  /\ mc.loopCount = 3
  /\ mcRun.jumps = 2
  /\ mcRun.exits = 1

\* C2: at every non-final loop re-entry the notes re-triggered are exactly
\* the matched note-ons that begin no later than loopStartBeat + 0.05 and end
\* after loopStartBeat, each once; and for the note from beat 0 to beat 8 with
\* region [2,6) and count 3 the note is re-triggered at beat 2 at the start of
\* iterations 2 and 3 and once more at beat 6 after the final iteration.
C2_ReTrigger ==
  /\ mcOut.op = "wrap" =>
       /\ RetrigIdxs(mcOut.retrig) = SustainedAcross(mc.midiSequence, mc.loopStartBeat)
       /\ Len(mcOut.retrig) = Cardinality(RetrigIdxs(mcOut.retrig))
       /\ \A k \in 1..Len(mcOut.retrig) : mcOut.retrig[k].boundary = mc.loopStartBeat
  /\ ( /\ mcRun.clean
       /\ mc.midiSequence = SeqLong
       /\ mc.loopStartBeat = 2 * BeatUnits
       /\ mc.loopEndBeat = 6 * BeatUnits
       /\ mc.loopCount = 3 ) =>
       LET expected == << [at |-> "wrap", boundary |-> 2 * BeatUnits, idx |-> 0],
                          [at |-> "wrap", boundary |-> 2 * BeatUnits, idx |-> 0],
                          [at |-> "exit", boundary |-> 6 * BeatUnits, idx |-> 0] >>
       IN /\ Len(mcRun.retrigs) = mcRun.jumps + mcRun.exits
          /\ mcRun.retrigs = SubSeq(expected, 1, Len(mcRun.retrigs))
          /\ ~mc.isLooping => mcRun.retrigs = expected

\* C2 witness: the scenario has run to the end of its final iteration.
C2_Witness ==
  /\ mcRun.clean
  /\ mc.midiSequence = SeqLong
  /\ mc.loopStartBeat = 2 * BeatUnits
  /\ mc.loopEndBeat = 6 * BeatUnits
  /\ mc.loopCount = 3
  /\ ~mc.isLooping
  /\ Len(mcRun.retrigs) = 3

\* C3 (state part): the block that reaches loopEndBeat in the final iteration
\* does not wrap: it re-triggers the notes sustained across loopEndBeat,
\* processes the rest of the block from loopEndBeat onward, turns looping off
\* and resets currentLoopIteration.
C3_ExitBlock ==
  mcOut.op = "exit" =>
    /\ mcOut.segs[1].endBeat = mc.loopEndBeat
    /\ mcOut.segs[2].startBeat = mc.loopEndBeat
    /\ mcOut.segs[2].endBeat = mc.playbackPosition
    /\ mcOut.segs[1].numSamples + mcOut.segs[2].numSamples = NumSamples
    /\ mc.playbackPosition = mc.loopEndBeat + BlockBeats(mcOut.segs[2].numSamples, mc.tempo)
    /\ RetrigIdxs(mcOut.retrig) = SustainedAcross(mc.midiSequence, mc.loopEndBeat)
    /\ \A k \in 1..Len(mcOut.retrig) : mcOut.retrig[k].boundary = mc.loopEndBeat
    /\ ~mc.isLooping
    /\ mc.currentLoopIteration = 0

\* C3 (step part): once the loop has been left, no later block of the run
\* wraps or resets the position to loopStartBeat.
C3_NoLaterJump ==
  (mcRun.exits > 0 /\ mc.isPlaying /\ mcRun'.exits > 0) =>
     /\ mcRun'.jumps = mcRun.jumps
     /\ mcRun'.resets = mcRun.resets
     /\ mcRun'.exits = mcRun.exits

\* C3: the final iteration leaves the loop without wrapping, and for good.
C3_FinalIteration == []C3_ExitBlock /\ [][C3_NoLaterJump]_mainVars

\* C3 witness: a block after the one that left the loop, in the same run,
\* with a note re-triggered at loopEndBeat still in the record.
C3_Witness ==
  /\ mcRun.exits = 1
  /\ mc.isPlaying
  /\ mcOut.op = "block"
  /\ mc.loopCount = 3
  /\ mc.playbackPosition > mc.loopEndBeat
  /\ \E k \in 1..Len(mcRun.retrigs) : mcRun.retrigs[k].at = "exit"

\* C8 (step part): a playMidiFile that finds a valid region exhausted arms
\* it again, with the region unchanged and currentLoopIteration 0.
C8_RearmStep ==
  ( /\ mcRun.exhausted
    /\ mcOut'.op = "play"
    /\ Len(mc.midiSequence) > 0
    /\ mc.loopCount > 0
    /\ mc.loopEndBeat > mc.loopStartBeat ) =>
     /\ mc'.isLooping
     /\ mc'.isPlaying
     /\ mc'.loopStartBeat = mc.loopStartBeat
     /\ mc'.loopEndBeat = mc.loopEndBeat
     /\ mc'.loopCount = mc.loopCount
     /\ mc'.currentLoopIteration = 0
     /\ mc'.playbackPosition = 0

\* C8 (state part): the re-armed run again leaves the loop after
\* loopCount - 1 jumps.
C8_RearmedRun ==
  (mcRun.rearmed /\ mcRun.clean /\ ~mc.isLooping) =>
     /\ mcRun.exits = 1
     /\ mcRun.jumps = mc.loopCount - 1

SchEventBeat(k) == convertTicksToBeats(sched.midiSequence[schOut.buf[k].idx + 1].tick)

\* C4: while looping with iterations remaining, a block that crosses
\* loopEndBeat dispatches no event whose beat is >= loopEndBeat (the block is
\* split at the seam).
C4_SplitAtSeam ==
  ( /\ schOut.op = "block"
    /\ schOut.loopActive
    /\ schOut.itersLeft
    /\ sched.loopEndBeat > sched.loopStartBeat
    /\ schOut.startBeat <= schOut.loopEnd
    /\ schOut.endBeat >= schOut.loopEnd ) =>
     \A k \in 1..Len(schOut.buf) : SchEventBeat(k) < schOut.loopEnd

\* C5: when the block that reaches the end of the file has been rendered,
\* it was rendered only up to the end beat, playback has stopped, and the
\* playback-finished notification has been posted exactly once in this run.
C5_EndOfFileOnce ==
  (schOut.op = "eof" /\ Len(sched.midiSequence) > 0) =>
     /\ schOut.numSamples <= NumSamples
     /\ sched.playbackPosition = schOut.endBeat
     /\ ~sched.isPlaying
     /\ schRun.posts = 1

\* C6: the loop is active only if loopCount > 0 and loopEndBeat > loopStartBeat.
C6_LoopActiveOnlyIfValid ==
  sched.isLooping => (sched.loopCount > 0 /\ sched.loopEndBeat > sched.loopStartBeat)

\* C7: currentLoopIteration is 0 right after every setLoopRegion and right
\* after every startPlayback.
C7_IterationReset ==
  schOut.op \in {"setLoopRegion", "startPlayback"} => sched.currentLoopIteration = 0

\* C9: once a block has observed the stop request, no note is left sounding.
C9_StopSilences ==
  (~sched.isPlaying /\ schOut.op = "idle") => schVoices = {}

\* C10: within one getNextAudioBlock, the loop fields the audio thread reads
\* all come from the same setLoopRegion call: never some from before and
\* some from after a call the control thread makes meanwhile.
C10_LoopRegionNotTorn ==
  \A p, q \in audio.seen : p = q

\* C11: a setLoopRegion or setTempo issued while getNextAudioBlock is
\* processing a block does not affect that block: every loop field and the
\* tempo table the block reads are as they were when the block began (the
\* control thread then being outside every call), the block keeps the tempo
\* it read, and the calls made meanwhile show in a later block only.
C11_BlockUnaffected ==
  audio.begun.quiet =>
     /\ \A v \in audio.seen : v = audio.begun.loop
     /\ \A v \in audio.tempoSeen : v = audio.begun.tempo

\* C12 (step): a setLoopRegion or setMidiSequence made while isPlaying is
\* true leaves playbackPosition as it was.
C12_ControlStep ==
  (sched.isPlaying /\ schOut'.op \in {"setLoopRegion", "setMidiSequence"}) =>
     sched'.playbackPosition = sched.playbackPosition

\* C12: the playback position is written only by getNextAudioBlock, or by a
\* control-thread operation while playback is stopped.
C12_PositionWrittenByAudioOnly == [][C12_ControlStep]_schedVars

\* C13 (step): a getNextAudioBlock of a playing scheduler with a sequence
\* loaded either re-enters the loop, starting from loopStartBeat, or leaves
\* the position no smaller than it was; the end-of-file step included.
C13_BlockStep ==
  (sched.isPlaying /\ Len(sched.midiSequence) > 0 /\ schOut'.op \in {"block", "eof"}) =>
     IF schOut'.wrapped
     THEN schOut'.startBeat = sched.loopStartBeat
     ELSE sched'.playbackPosition >= sched.playbackPosition

\* C13: across the blocks of a playback run the position never decreases
\* except at a loop re-entry, the single jump to loopStartBeat.
C13_PositionMonotonic == [][C13_BlockStep]_schedVars

\* C17 (step): with an empty sequence a getNextAudioBlock dispatches no
\* event, changes no playback state and posts no notification, whether or
\* not isPlaying is set.
C17_BlockStep ==
  (Len(sched.midiSequence) = 0 /\ schOut'.op \in {"idle", "block", "eof"}) =>
     /\ Len(schOut'.buf) = 0
     /\ sched' = sched
     /\ schVoices' = schVoices
     /\ schAsync' = schAsync

\* C17: getNextAudioBlock with no sequence loaded is a no-op.
C17_EmptySequenceNoOp == [][C17_BlockStep]_schedVars

\* A tempo table that has an entry and is sorted ascending by tick.
TempoTableOk(tempoEvents) ==
  /\ Len(tempoEvents) >= 1
  /\ \A i \in 1..(Len(tempoEvents) - 1) :
       tempoEvents[i].timestamp <= tempoEvents[i + 1].timestamp

\* C19 (step): setMidiSequence leaves a sorted table with at least one
\* entry, exactly the default entry (tick 0, 500000) when the sequence has
\* no tempo meta-event; every other operation keeps such a table such.
C19_TableStep ==
  /\ schOut'.op = "setMidiSequence" =>
       /\ TempoTableOk(sched'.tempoEvents)
       /\ (\A i \in 1..Len(sched'.midiSequence) : sched'.midiSequence[i].kind # "tempo") =>
            sched'.tempoEvents = << [timestamp |-> 0, tempo |-> Exact(500000)] >>
  /\ TempoTableOk(sched.tempoEvents) => TempoTableOk(sched'.tempoEvents)

\* C19: after any setMidiSequence the tempo table is sorted ascending by
\* tick and has at least one entry, in every state reached from there.
C19_TempoTableInvariant == [][C19_TableStep]_schedVars

\* C19 witness: a block has been played with the two-entry table of SeqTempo.
C19_Witness ==
  /\ sched.midiSequence = SeqTempo
  /\ Len(sched.tempoEvents) = 2
  /\ schOut.op = "block"
  /\ sched.tempo = 60

\* The ticks at which the tempo is queried: the start, the tempo change
\* embedded in SeqTempo, and the last tick.
QueryTicks == {0, 960, 3840}

\* The table is the single entry at tick 0, and getCurrentTempo returns at
\* every tick a double at most maxUlps units in the last place from bpm.
Collapsed(c, bpm, maxUlps) ==
  /\ Len(c.tempoEvents) = 1
  /\ c.tempoEvents[1].timestamp = 0
  /\ \A k \in QueryTicks :
       /\ getCurrentTempo(c.tempoEvents, convertTicksToBeats(k)) = bpm
       /\ getCurrentTempoUlps(c.tempoEvents, convertTicksToBeats(k)) \in (-maxUlps)..maxUlps

\* setTempo(bpm) leaves the table collapsed to bpm; until the next
\* setMidiSequence or setTempo every operation keeps the table setTempo(bpm)
\* left, and every block plays at the tempo getCurrentTempo returns.
OverrideStep(maxUlps) ==
  /\ schOut'.op = "setTempo" => Collapsed(sched', sched'.tempo, maxUlps)
  /\ \A bpm \in SchedTempoInputs :
       (/\ schOut'.op \notin {"setMidiSequence", "setTempo"}
        /\ sched.tempoEvents = setTempo(sched, bpm).tempoEvents) =>
          /\ sched'.tempoEvents = sched.tempoEvents
          /\ Collapsed(sched', bpm, maxUlps)
          /\ schOut'.op \in {"block", "eof"} =>
               /\ sched'.tempo = bpm
               /\ sched'.tempoUlps \in (-maxUlps)..maxUlps

C20_OverrideStep == OverrideStep(1)

\* C20: after setTempo(bpm) the tempo table is one entry at tick 0 and
\* getCurrentTempo returns 60000000.0 / (60000000.0 / bpm), a double within
\* one unit in the last place of bpm, at every tick in every later block,
\* whatever tempo events the sequence embeds, until setMidiSequence is
\* called again.
C20_TempoOverride == [][C20_OverrideStep]_schedVars

C20_ExactStep == OverrideStep(0)

\* C20 as stated: getCurrentTempo returns exactly bpm after setTempo(bpm).
C20_TempoOverrideExact == [][C20_ExactStep]_schedVars

\* C20 witness: SeqTempo embeds 60 BPM from beat 2; after setTempo(210) a
\* block beyond beat 2 has been played at the tempo of the collapsed table,
\* one unit in the last place from 210 BPM.
C20_Witness ==
  /\ sched.midiSequence = SeqTempo
  /\ sched.tempoEvents = << [timestamp |-> 0, tempo |-> DoubleDiv(60000000, 210)] >>
  /\ schOut.op = "block"
  /\ schOut.startBeat > 2 * BeatUnits
  /\ sched.tempo = 210
  /\ sched.tempoUlps # 0

\* C14: within one getNextAudioBlock call of the scheduler, given a sequence
\* sorted by tick, the events are added to the block's MIDI buffer in
\* non-decreasing sample-offset order.
C14_DispatchOrder ==
  (schOut.op \in {"block", "eof"} /\ SortedByTick(sched.midiSequence)) =>
     \A k \in 1..(Len(schOut.buf) - 1) : schOut.buf[k].pos <= schOut.buf[k + 1].pos

\* C14 witness: a block whose buffer holds events at two different offsets.
C14_Witness ==
  /\ schOut.op \in {"block", "eof"}
  /\ \E k \in 1..(Len(schOut.buf) - 1) : schOut.buf[k].pos < schOut.buf[k + 1].pos

\* =================================================================
\* Claims about single calls
\* =================================================================
\* C15: every event whose beat lies in [segmentStartBeat, segmentEndBeat) of
\* a segment of at least one sample is in the segment's event buffer, at a
\* sample offset within [0, segmentNumSamples): none is dropped because of
\* its computed offset.
C15_NoEventDropped ==
  (fn.pc = "done" /\ fn.op = "loopEndSegment" /\ fn.result.numSamples > 0) =>
     \A i \in 0..(Len(fn.seq) - 1) :
        LET eventBeat == convertTicksToBeats(fn.seq[i + 1].tick)
        IN (eventBeat >= fn.result.startBeat /\ eventBeat < fn.result.endBeat) =>
             \E e \in 1..Len(fn.result.buf) :
                /\ fn.result.buf[e].idx = i
                /\ fn.result.buf[e].pos >= 0
                /\ fn.result.buf[e].pos < fn.result.numSamples

\* The note-ons of seq with no matched note-off.
Unterminated(seq) ==
  { i \in 0..(Len(seq) - 1) : seq[i + 1].kind = "on" /\ noteOffObject(seq, i) = -1 }

\* The beat an unterminated note extends to: one beat after the last event.
UnterminatedEndBeat(seq) == convertTicksToBeats(LastTimestamp(seq, 0)) + BeatUnits

\* C16: a note-on with no matched note-off extends to end-of-sequence + 1
\* beat: the piano roll gives it that endBeat, and
\* reTriggerSustainedNotesAt re-triggers it at every boundary that lies
\* between its note-on and that end.
C16_UnterminatedExtends ==
  /\ (fn.pc = "done" /\ fn.op = "setMidiSequence") =>
       \A k \in 1..Len(fn.result) :
          fn.result[k].idx \in Unterminated(fn.seq) =>
             fn.result[k].endBeat = UnterminatedEndBeat(fn.seq)
  /\ (fn.pc = "done" /\ fn.op = "reTriggerSustainedNotesAt") =>
       \A i \in Unterminated(fn.seq) :
          (/\ convertTicksToBeats(fn.seq[i + 1].tick) < fn.beat
           /\ fn.beat < UnterminatedEndBeat(fn.seq)) =>
             \E k \in 1..Len(fn.result) : fn.result[k] = i

\* The entries of the table at or before the position.
AtOrBefore(tempoEvents, position) ==
  { i \in 1..Len(tempoEvents) : convertTicksToBeats(tempoEvents[i].timestamp) <= position }

\* C18: getCurrentTempo returns the tempo of the last tempo event whose tick
\* is <= the query tick, as 60000000 / microseconds per quarter note, and
\* 120 when the query tick precedes the first tempo event.
C18_TempoAtTick ==
  (fn.pc = "done" /\ fn.op = "getCurrentTempo") =>
     LET S == AtOrBefore(fn.tempoEvents, fn.beat)
     IN IF S = {}
        THEN fn.result = [bpm |-> 120, ulps |-> 0]
        ELSE LET last == CHOOSE i \in S : \A j \in S : j <= i
             IN /\ fn.result.bpm * fn.tempoEvents[last].tempo.num = 60000000
                /\ fn.result.ulps = 0

\* C18 witness: a query at the tick of the second of two entries has
\* returned the tempo of the second.
C18_Witness ==
  /\ fn.pc = "done" /\ fn.op = "getCurrentTempo"
  /\ fn.tempoEvents = << [timestamp |-> 0, tempo |-> Exact(500000)],
                         [timestamp |-> 240, tempo |-> Exact(1000000)] >>
  /\ fn.beat = convertTicksToBeats(240)
  /\ fn.result.bpm = 60

\* The index of the first event of seq whose beat is >= beat, or the number
\* of events: the number of events before the first such.
FirstAtOrAfter(seq, beat) ==
  Cardinality({ i \in 1..Len(seq) :
                  \A j \in 1..i : convertTicksToBeats(seq[j].tick) < beat })

\* C21: for a sequence sorted by tick and a query beat that is the beat of
\* a tick t, findEventIndexForBeat returns the index of the first event
\* whose beat is >= the query beat, or the number of events if there is
\* none, and this is the result of the linear scan findEventAtTime(t).
C21_FindEventIndex ==
  (fn.pc = "done" /\ fn.op = "findEventIndexForBeat") =>
     /\ fn.result.index = FirstAtOrAfter(fn.seq, fn.beat)
     /\ fn.result.index = fn.result.atTick

\* C21 as stated: the linear scan is taken at the tick corresponding to the
\* query beat, convertBeatsToTicks(beat).
C21_FindEventIndexAtConvertedTick ==
  (fn.pc = "done" /\ fn.op = "findEventIndexForBeat") =>
     /\ fn.result.index = FirstAtOrAfter(fn.seq, fn.beat)
     /\ fn.result.index = fn.result.atConverted

\* C21 witness: a search among three events has returned an index in the
\* middle of the sequence.
C21_Witness ==
  /\ fn.pc = "done" /\ fn.op = "findEventIndexForBeat"
  /\ Len(fn.seq) = 3
  /\ fn.seq[1].tick < fn.seq[2].tick
  /\ fn.beat = convertTicksToBeats(fn.seq[2].tick)
  /\ fn.result.index = 1

\* The program the block leaves channel c with: the number of the last
\* program change of the block on c, or the program it had.
LastProgram(midiBuffer, c, before) ==
  LET changes == { i \in 1..Len(midiBuffer) :
                     midiBuffer[i].msg.kind = "pc" /\ midiBuffer[i].msg.chan - 1 = c }
  IN IF changes = {} THEN before
     ELSE midiBuffer[CHOOSE i \in changes : \A j \in changes : j <= i].msg.number

\* C22: renderNextBlock leaves the program of channel 9 as it was whatever
\* program changes the block carries on it, and leaves every other channel c
\* with the program number of the block's (last) program change on c, or
\* with the program it had if the block carries none on c.
C22_ProgramChange ==
  [][(synth.pc = "call" /\ synth'.pc = "done") =>
       \A c \in Channels :
         synth'.subsoundIndex[c] =
           IF c = 9 THEN synth.subsoundIndex[9]
           ELSE LastProgram(synth.midiBuffer, c, synth.subsoundIndex[c])]_vars

\* C22 witness: a block with a program change on channel 9 and one on
\* channel 0 has been rendered; channel 0 is on the new program, channel 9
\* on the drum kit and channel 1 on the program it had.
C22_Witness ==
  /\ synth.pc = "done"
  /\ \E i \in 1..Len(synth.midiBuffer) : synth.midiBuffer[i].msg = SynMsg("pc", 10, 5, 0)
  /\ \E i \in 1..Len(synth.midiBuffer) : synth.midiBuffer[i].msg = SynMsg("pc", 1, 5, 0)
  /\ synth.subsoundIndex[0] = 5
  /\ synth.subsoundIndex[9] = 228
  /\ synth.subsoundIndex[1] = 0

\* C23: a program change on channel 9 is not forwarded into channel 9's
\* buffer of the block.
C23_DrumProgramChangeSuppressed ==
  synth.pc = "done" =>
    \A i \in 1..Len(synth.channelBuffers[9]) : synth.channelBuffers[9][i].msg.kind # "pc"

\* The events of the block on channel c, in the block's order.
OnChannel(midiBuffer, c) ==
  SelectSeq(midiBuffer, LAMBDA metadata : metadata.msg.chan - 1 = c)

\* C24: the note-ons and note-offs of a block on a channel other than 9
\* reach the channel's buffer with note number
\* min(127, max(0, note + transposition)) and with their channel and
\* velocity; those on channel 9 reach it with their note number as it was.
C24_Transposition ==
  synth.pc = "done" =>
    \A c \in Channels :
      LET given == OnChannel(synth.midiBuffer, c)
          forwarded == synth.channelBuffers[c]
      IN /\ Len(forwarded) = Len(given)
         /\ \A i \in 1..Len(given) :
              given[i].msg.kind \in {"on", "off"} =>
                /\ forwarded[i].msg.kind = given[i].msg.kind
                /\ forwarded[i].msg.chan = given[i].msg.chan
                /\ forwarded[i].msg.vel = given[i].msg.vel
                /\ forwarded[i].msg.number =
                     IF c = 9 THEN given[i].msg.number
                     ELSE Min(127, IF given[i].msg.number + synth.transpositionAmount < 0
                                   THEN 0
                                   ELSE given[i].msg.number + synth.transpositionAmount)

\* C24 witness: with transposition +12 a block with note 64 on channel 0 and
\* note 64 on channel 9 has been rendered: 76 on channel 0, 64 on channel 9.
C24_Witness ==
  /\ synth.pc = "done"
  /\ synth.transpositionAmount = 12
  /\ synth.midiBuffer = << SynEv(SynMsg("on", 1, 64, 100), 0), SynEv(SynMsg("on", 10, 64, 100), 0) >>
  /\ synth.channelBuffers[0] = << SynEv(SynMsg("on", 1, 76, 100), 0) >>
  /\ synth.channelBuffers[9] = << SynEv(SynMsg("on", 10, 64, 100), 0) >>

\* How many events of a buffer are note messages of this kind on MIDI
\* channel chan at this sample position.
NoteEventsAt(buf, kind, chan, pos) ==
  Cardinality({ i \in 1..Len(buf) :
                  buf[i].msg.kind = kind /\ buf[i].msg.chan = chan /\ buf[i].pos = pos })

\* C25: every note-on and note-off of a block on channel c is in channel c's
\* buffer at its sample position as many times as the block has it, and in no
\* other channel's buffer; channel c is rendered, on its buffer.
C25_OwnChannelOnly ==
  synth.pc = "done" =>
    \A c \in Channels : \A kind \in {"on", "off"} : \A pos \in SynPositions :
      /\ \A d \in Channels :
           NoteEventsAt(synth.channelBuffers[d], kind, c + 1, pos) =
             IF d = c THEN NoteEventsAt(synth.midiBuffer, kind, c + 1, pos) ELSE 0
      /\ NoteEventsAt(synth.midiBuffer, kind, c + 1, pos) > 0 => c \in synth.rendered

\* C25 witness: a block with a note-on on channel 1 at sample 0 and a
\* note-off on channel 0 at sample 2 has been rendered.
C25_Witness ==
  /\ synth.pc = "done"
  /\ synth.midiBuffer = << SynEv(SynMsg("on", 2, 64, 100), 0), SynEv(SynMsg("off", 1, 120, 0), 2) >>
  /\ Len(synth.channelBuffers[1]) = 1 /\ synth.channelBuffers[1][1].pos = 0
  /\ Len(synth.channelBuffers[0]) = 1 /\ synth.channelBuffers[0][1].pos = 2
  /\ synth.rendered = {0, 1}

\* The channels a block carries an event for.
DispatchedChannels(midiBuffer) ==
  { midiBuffer[i].msg.chan - 1 : i \in 1..Len(midiBuffer) } \cap Channels

\* A step of stopAllNotes: between blocks, and not a setTransposition.
StopAllNotesStep ==
  /\ synth.pc = "idle" /\ synth'.pc = "idle"
  /\ synth'.transpositionAmount = synth.transpositionAmount

\* C29: the channels a block renders are those whose marker is set; the
\* block sets the marker of every channel it carries an event for; a marker
\* that is set stays set through every step (blocks without an event for the
\* channel included) but stopAllNotes, which clears all markers.
C29_ActiveMarkers ==
  [][/\ (synth.pc = "call" /\ synth'.pc = "done") =>
          /\ synth'.rendered \subseteq synth'.activeChannels
          /\ DispatchedChannels(synth.midiBuffer) \subseteq synth'.activeChannels
          /\ synth'.rendered =
               synth.activeChannels \cup DispatchedChannels(synth.midiBuffer)
     /\ IF StopAllNotesStep
        THEN synth'.activeChannels = {}
        ELSE synth.activeChannels \subseteq synth'.activeChannels]_vars

\* C29 witness: a block without an event for channel 0 has rendered channel
\* 0, whose marker an earlier block set, and the channel of its own event.
C29_Witness ==
  /\ synth.pc = "done"
  /\ Len(synth.midiBuffer) = 1
  /\ DispatchedChannels(synth.midiBuffer) = {9}
  /\ synth.rendered = {0, 9}
  /\ synth.channelBuffers[0] = << >>

\* C26: whatever the state clearLoopRegion is called in, it leaves
\* isLooping false, loopCount 0, loopStartBeat and loopEndBeat 0 and
\* currentLoopIteration 0, and the rest of MainComponent as it was; a
\* second call right after it changes nothing.
C26_ClearLoopRegion ==
  [][mcOut'.op = "clear" =>
       /\ ~mc'.isLooping
       /\ mc'.loopCount = 0
       /\ mc'.loopStartBeat = 0 /\ mc'.loopEndBeat = 0
       /\ mc'.currentLoopIteration = 0
       /\ mc'.isPlaying = mc.isPlaying
       /\ mc'.playbackPosition = mc.playbackPosition
       /\ clearLoopRegion(mc') = mc'
       /\ (mcOut.op = "clear" => mc' = mc)]_vars

\* C26 witness: the region has been cleared during a run that is playing
\* and has wrapped at the loop end.
C26_Witness ==
  /\ mcOut.op = "clear"
  /\ mc.isPlaying
  /\ mcRun.jumps > 0
  /\ mc.playbackPosition > 0

\* The operations getNextAudioBlock is recorded as.
BlockOps == {"idle", "eof", "wrap", "exit", "block"}

\* One beat after the last event of the loaded sequence.
LastEventBeatPlusOne(c) ==
  (IF Len(c.midiSequence) > 0
   THEN convertTicksToBeats(c.midiSequence[Len(c.midiSequence)].tick)
   ELSE 0) + BeatUnits

\* C27, the block that reaches the end: a block of a playing, non-looping
\* MainComponent with position + blockBeats >= last event's beat + 1 is one
\* segment that ends at that beat, is no longer than the block and holds no
\* event at or after it; the position is that beat, isPlaying is false and
\* every note is off.
C27_EndStep ==
  (/\ mcOut'.op \in BlockOps
   /\ mc.isPlaying /\ ~mc.isLooping
   /\ mc.playbackPosition + BlockBeats(NumSamples, mc.tempo) >= LastEventBeatPlusOne(mc)) =>
     /\ mcOut'.op = "eof"
     /\ Len(mcOut'.segs) = 1
     /\ mcOut'.segs[1].startBeat = mc.playbackPosition
     /\ mcOut'.segs[1].endBeat = LastEventBeatPlusOne(mc)
     /\ mcOut'.segs[1].numSamples <= NumSamples
     /\ \A k \in 1..Len(mcOut'.segs[1].buf) :
          /\ convertTicksToBeats(mc.midiSequence[mcOut'.segs[1].buf[k].idx + 1].tick)
               < LastEventBeatPlusOne(mc)
          /\ mcOut'.segs[1].buf[k].pos < mcOut'.segs[1].numSamples
     /\ mc'.playbackPosition = LastEventBeatPlusOne(mc)
     /\ ~mc'.isPlaying
     /\ mcOut'.allOff /\ mcVoices' = {}

\* C27, the later blocks: a block of a MainComponent that is not playing
\* dispatches no event and leaves it not playing, and only playMidiFile
\* makes it playing again.
C27_LaterStep ==
  /\ (mcOut'.op \in BlockOps /\ ~mc.isPlaying) =>
       (mcOut'.segs = << >> /\ mcVoices' = mcVoices /\ ~mc'.isPlaying)
  /\ (~mc.isPlaying /\ mc'.isPlaying) => mcOut'.op = "play"

\* C27: both, of every step.
C27_EndOfFile == [][C27_EndStep /\ C27_LaterStep]_vars

\* C27 witness: the block that reached the end of a loaded sequence has
\* been cut short of a whole block, and playback has stopped at the end.
C27_Witness ==
  /\ mcOut.op = "eof"
  /\ Len(mc.midiSequence) > 0
  /\ mcOut.segs[1].numSamples > 0
  /\ mcOut.segs[1].numSamples < NumSamples
  /\ mc.playbackPosition = LastEventBeatPlusOne(mc)
  /\ ~mc.isPlaying

\* The thread is inside processNextBlock, between taking the lock and
\* releasing it.
InBlock ==
  procThread.pc \in {"begin", "looping", "iteration", "endCheck", "events", "store", "unlock"}

\* The control thread is inside one of its operations on MidiProcessorThread.
InControl == procControl.pc \in {"body", "unlock"}

\* C28, in every state: while setTempo, setLoopRegion, startPlayback or
\* getPlaybackPosition is inside its critical section the thread is not
\* inside processNextBlock, the fields the operation finds are those left
\* when the lock was last released (by a whole block or a whole operation),
\* and the position getPlaybackPosition returns is the position of that
\* state.
C28_WholeBlocks ==
  /\ InControl => ~InBlock
  /\ procControl.pc = "body" => proc = procCommitted
  /\ (procControl.pc = "unlock" /\ procControl.op = "getPlaybackPosition") =>
       (procControl.result = procCommitted.playbackPosition /\ proc = procCommitted)

\* C28, of every step: while the thread is inside processNextBlock no step
\* but its own changes the fields.
C28_NoOverwrite ==
  (InBlock /\ procThread' = procThread) => proc' = proc

\* C28: both.
C28_SameLock == []C28_WholeBlocks /\ [][C28_NoOverwrite]_vars

\* C28 witness: getPlaybackPosition is inside its critical section while
\* the thread, which has wrapped to the loop start once, waits for its next
\* block.
C28_Witness ==
  /\ procControl.pc = "body" /\ procControl.op = "getPlaybackPosition"
  /\ procLock = "control"
  /\ procThread.pc = "run" /\ procThread.running /\ ~procThread.shouldExit
  /\ proc.currentLoopIteration = 1
  /\ proc.playbackPosition >= proc.loopStartBeat
  /\ proc.currentEvent > 0

\* An update that left the player playing somewhere else than deltaBeats
\* further on: a jump.
PlayerJumped ==
  /\ playerOut'.op = "update" /\ player.state.isPlaying /\ player'.state.isPlaying
  /\ player'.state.position # player.state.position + playerOut'.delta

\* The position is inside the caller's loop region.
InsideLoop(p) ==
  p.isLooping /\ p.state.position >= p.loopStartBeat /\ p.state.position < p.loopEndBeat

\* C30: an update jumps only from a position inside the loop, with
\* (currentLoopIteration + 1) < loopCount and the new position >= the loop
\* end; the jump is to the loop start, its first call is allNotesOff, every
\* noteOn comes after it, and currentLoopIteration grows by exactly 1.  An
\* update from inside the loop that reaches the loop end on the final
\* iteration keeps playing deltaBeats further on, past the loop end, with the
\* iteration count as it was.
C30_UpdateStep ==
  /\ PlayerJumped =>
       /\ InsideLoop(player)
       /\ (player.state.currentLoopIteration + 1) < player.loopCount
       /\ player.state.position + playerOut'.delta >= player.loopEndBeat
       /\ player'.state.position = player.loopStartBeat
       /\ player'.state.currentLoopIteration = player.state.currentLoopIteration + 1
       /\ Len(playerOut'.calls) > 0
       /\ playerOut'.calls[1].call = "allNotesOff"
       /\ \A k \in 2..Len(playerOut'.calls) : playerOut'.calls[k].call # "allNotesOff"
  /\ (/\ playerOut'.op = "update" /\ player.state.isPlaying
      /\ InsideLoop(player)
      /\ (player.state.currentLoopIteration + 1) >= player.loopCount
      /\ player.state.position + playerOut'.delta >= player.loopEndBeat) =>
       /\ player'.state.isPlaying
       /\ player'.state.position = player.state.position + playerOut'.delta
       /\ player'.state.position >= player.loopEndBeat
       /\ player'.state.currentLoopIteration = player.state.currentLoopIteration
       /\ \A k \in 1..Len(playerOut'.calls) : playerOut'.calls[k].call # "allNotesOff"

C30_LoopJump == [][C30_UpdateStep]_vars

\* C30 witness: an update has jumped to the loop start for the second time
\* and re-triggered a note after allNotesOff.
C30_Witness ==
  /\ playerOut.op = "update"
  /\ player.state.isPlaying
  /\ player.state.currentLoopIteration = 2
  /\ Len(playerOut.calls) >= 2
  /\ playerOut.calls[1].call = "allNotesOff"
  /\ playerOut.calls[2].call = "noteOn"

\* The loop of this run is exhausted: looping is disabled, a count is kept.
LoopExhausted == proc.loopCount = 0 /\ proc.originalLoopCount > 0

\* stopPlayback, or a startPlayback that finds no run in progress, is about
\* to reset the state.
RunBoundary ==
  /\ procControl.pc = "body"
  /\ \/ procControl.op = "stopPlayback"
     \/ procControl.op = "startPlayback" /\ ~procThread.running

\* C31, in every state: a block of the final iteration that reaches the loop
\* end leaves the position at loopEndBeat, not wrapped, with loopCount 0;
\* and the count kept is the one given to the last setLoopRegion.
C31_ExhaustAndRestore ==
  /\ (/\ procThread.pc \in {"endCheck", "events", "store"}
      /\ procCommitted.loopCount > 0
      /\ procCommitted.currentLoopIteration >= procCommitted.loopCount - 1
      /\ procThread.newPosition >= proc.loopEndBeat) =>
       /\ proc.loopCount = 0
       /\ procThread.newPosition = proc.loopEndBeat
       /\ proc.currentLoopIteration = procCommitted.currentLoopIteration
  /\ procControl.pc \in {"idle", "body"} => proc.originalLoopCount = procControl.lastCount

\* Once the loop is exhausted (C31).
C31_StaysExhausted ==
  (/\ LoopExhausted
   /\ ~(procControl.pc = "body" /\ procControl.op \in {"setLoopRegion", "stopPlayback",
                                                      "startPlayback", "setMidiSequence"})) =>
    /\ proc'.loopCount = 0
    /\ proc'.playbackPosition >= proc.playbackPosition

\* C31, of every step: once the loop is exhausted, loopCount stays 0 and the
\* position never moves back, until setLoopRegion, stopPlayback,
\* startPlayback or setMidiSequence acts; stopPlayback, and the
\* startPlayback of the next run, leave loopCount at the count given to the
\* last setLoopRegion, currentLoopIteration at 0 and the region as it was.
C31_RestOfRun ==
  /\ RunBoundary =>
       /\ proc'.loopCount = procControl.lastCount
       /\ proc'.currentLoopIteration = 0
       /\ proc'.loopStartBeat = proc.loopStartBeat
       /\ proc'.loopEndBeat = proc.loopEndBeat
  /\ C31_StaysExhausted

\* C31: both.
C31_LoopCountRestored == []C31_ExhaustAndRestore /\ [][C31_RestOfRun]_vars

\* C31 witness: a run wrapped once and exhausted its loop of two passes, and
\* the startPlayback of the next run has restored the count.
C31_Witness ==
  /\ procControl.pc = "unlock" /\ procControl.op = "startPlayback"
  /\ procCommitted.loopCount = 0 /\ procCommitted.originalLoopCount = 2
  /\ procCommitted.currentLoopIteration = 1
  /\ procCommitted.playbackPosition > procCommitted.loopEndBeat
  /\ proc.loopCount = 2 /\ proc.currentLoopIteration = 0
  /\ procThread.running

\* C32: with a sequence loaded and no command given while it runs, a worker
\* that is running is eventually not running.
C32_WorkerTerminates ==
  (procThread.running /\ Len(proc.midiSequence) > 0 /\ proc.tempo > 0) ~> ~procThread.running

\* C38: the owner never waits in stopPlayback for the worker to end while
\* it holds the lock and the worker waits for that lock in processNextBlock;
\* the worker is never ended by force.
C38_NoLockWaitCycle ==
  /\ ~(/\ procControl.pc = "wait" /\ procLock = "control"
       /\ procThread.running /\ procThread.pc = "lock")
  /\ ~procThread.killed

\* C33: in an uninterrupted run from position 0 at one tempo with no loop
\* region, no event has been added to a block's buffer twice, every event
\* before the position has been added once (none is skipped at a block
\* boundary), and once the end of the file is reached every event has been
\* added exactly once.
C33_EachEventOnce ==
  schRun.clean =>
    LET seq == sched.midiSequence
    IN /\ \A i \in 1..Len(seq) : schRun.added[i] <= 1
       /\ \A i \in 1..Len(seq) :
            convertTicksToBeats(seq[i].tick) < sched.playbackPosition => schRun.added[i] = 1
       /\ schOut.op = "eof" => \A i \in 1..Len(seq) : schRun.added[i] = 1

\* C33 witness: an uninterrupted run has reached the end of the file after
\* several blocks, with every event of a sequence of five added.
C33_Witness ==
  /\ schRun.clean /\ schOut.op = "eof"
  /\ schRun.posts = 1
  /\ Len(sched.midiSequence) = 5
  /\ \A i \in 1..5 : schRun.added[i] = 1
  /\ sched.playbackPosition = FileEndBeat(sched.midiSequence)

\* C34: every sample count getNextAudioBlock hands to processSegment is in
\* [0, numSamples], and the counts of the two segments of a split block sum
\* to numSamples.
C34_SegmentCounts ==
  /\ \A k \in 1..Len(mcOut.segs) :
       mcOut.segs[k].numSamples >= 0 /\ mcOut.segs[k].numSamples <= NumSamples
  /\ Len(mcOut.segs) = 2 => mcOut.segs[1].numSamples + mcOut.segs[2].numSamples = NumSamples


\* C35: at a non-final loop re-entry no note-on event is both re-triggered by
\* reTriggerSustainedNotesAt and dispatched by the processSegment that follows
\* the seam, so each note gets at most one note-on for that re-entry.
C35_OneNoteOnPerReentry ==
  (mcOut.op = "wrap") =>
    \A k \in 1..Len(mcOut.retrig) : \A j \in 1..Len(mcOut.segs[2].buf) :
      mcOut.retrig[k].idx # mcOut.segs[2].buf[j].idx


\* C36: a note-off renderNextBlock forwards on a melodic channel carries the
\* note number its note-on was given, whatever setTransposition did in
\* between: no sounding note has had its note-off go by without stopping it.
C36_NoteOffMatchesNoteOn ==
  \A v \in synVoices : v.chan # DrumChannel => ~v.passed


\* C37: when clearLoopRegion or stopMidiFile was the last thing the message
\* thread did while a block was in progress, the state at the block's return
\* is the one that call established: the block's stores do not overwrite it.
C37_BlockReturn ==
  (mcAudio.pc = "mid" /\ mcAudio'.pc = "idle") =>
    /\ mcOut.op = "clear" => (mc'.currentLoopIteration = 0 /\ ~mc'.isLooping)
    /\ mcOut.op = "stop" => (mc'.playbackPosition = 0 /\ mc'.currentLoopIteration = 0)

C37_ControlCallNotOverwritten == [][C37_BlockReturn]_vars


\* C39: in an update that jumps to the loop start, every event that
\* processEventsUpToPosition dispatches lies at or after the loop start.
C39_JumpStep ==
  PlayerJumped =>
    \A k \in 1..Len(playerOut'.calls) :
      (playerOut'.calls[k].call \in {"noteOn", "noteOff"} /\ playerOut'.calls[k].by = "events") =>
        convertTicksToBeats(player.midiSequence[playerOut'.calls[k].idx + 1].tick)
          >= player.loopStartBeat

C39_NoEventBeforeLoopStart == [][C39_JumpStep]_vars


\* C40: with blocks asked for again and again and no control command, a
\* playback of a non-empty sequence at a positive tempo reaches the end of
\* the file and stops, whatever loop region the dialog was given.
C40_PlaybackStops ==
  (mc.isPlaying /\ Len(mc.midiSequence) > 0 /\ mc.tempo > 0) ~> ~mc.isPlaying

\* C40 witness: a run with a loop region that ends before its start and two
\* iterations has wrapped, has had its position moved back by the entry
\* check, has left the loop and has stopped at the end of the file.
C40_Witness ==
  /\ mcOut.op = "eof" /\ ~mc.isPlaying
  /\ mc.loopEndBeat < mc.loopStartBeat /\ mc.loopCount = 2
  /\ mcRun.jumps = 1 /\ mcRun.exits = 1 /\ mcRun.resets >= 1
  /\ mc.playbackPosition = FileEndBeat(mc.midiSequence)

====
